---------------------------- MODULE Spec2Model ----------------------------
(***************************************************************************)
(* A model of fplbase's input layer (src/src/input.cpp): the per-frame     *)
(* input state machine of InputSystem, the edge-triggered Button, the      *)
(* pointer table, the Android gamepad event queue shared between the Java  *)
(* callback and the simulation thread, and the Cardboard trigger latch.    *)
(*                                                                         *)
(* InputSystem::AdvanceFrame is modelled by the steps of its code: the     *)
(* per-frame reset with the gamepad drain (FrameBegin), one iteration of   *)
(* the SDL_PollEvent loop (PollEvent) and the exit of that loop with the   *)
(* Cardboard update (FrameEnd).  For the interleavings with the Java       *)
(* thread, HandleGamepadEvents and ReceiveGamepadEvent are also modelled   *)
(* statement by statement (the Bridge actions).                            *)
(***************************************************************************)
EXTENDS Integers, Sequences, FiniteSets, TLC

VARIABLES
  pc,                   \* position of the simulation thread inside AdvanceFrame
  button_map,           \* InputSystem::button_map_     : id -> Button
  pointers,             \* InputSystem::pointers_       : slot -> Pointer
  joystick_map,         \* InputSystem::joystick_map_   : instance id -> Joystick
  gamepad_map,          \* InputSystem::gamepad_map_    : device id -> Gamepad
  cardboard,            \* InputSystem::cardboard_input_ (pending_trigger_, triggered_)
  assert_failed,        \* an assert() of the module has been reached
  unhandled,            \* InputSystem::unhandled_java_input_events_
  android_event_mutex,  \* InputSystem::android_event_mutex : its holder, or "free"
  consumer,             \* locals of the running HandleGamepadEvents
  producers,            \* the Java threads inside ReceiveGamepadEvent
  sdl_queue,            \* SDL's event queue, read by SDL_PollEvent
  sdl_fingers,          \* SDL's list of the fingers now on the touch device
  sdl_joysticks,        \* instance ids of the joysticks SDL now enumerates
  text_input_events,    \* InputSystem::text_input_events_
  record_text_input,    \* InputSystem::record_text_input_
  exit_requested,       \* InputSystem::exit_requested_
  app_event_callbacks,  \* InputSystem::app_event_callbacks_
  minimized,            \* InputSystem::minimized_
  mousewheel_delta,     \* InputSystem::mousewheel_delta_
  hist                  \* what an observer of the run has recorded

vars == <<pc, button_map, pointers, joystick_map, gamepad_map, cardboard,
          assert_failed, unhandled, android_event_mutex, consumer, producers,
          sdl_queue, sdl_fingers, sdl_joysticks, text_input_events,
          record_text_input, exit_requested, app_event_callbacks, minimized,
          mousewheel_delta, hist>>

progvars == <<pc, button_map, pointers, joystick_map, gamepad_map, cardboard,
              assert_failed, unhandled, android_event_mutex, consumer,
              producers, sdl_queue, sdl_fingers, sdl_joysticks,
              text_input_events, record_text_input, exit_requested,
              app_event_callbacks, minimized, mousewheel_delta>>

\* What the event loop and the gamepad bridge never write: the recording
\* switch and the state of the app-event filter.
appvars == <<record_text_input, app_event_callbacks, minimized>>

-----------------------------------------------------------------------------
(* Bounds of the model.                                                    *)

\* Events SDL may hold for one SDL_PollEvent loop.
MaxPending == 3

\* Slots of the pointer table (kMaxSimultanuousPointers in the program).
NumPointers == 2

\* Capacity of the gamepad queue.  The program's kMaxAndroidEventsPerFrame is
\* 100 (input.cpp:32); the model keeps the comparison of ReceiveGamepadEvent
\* and scales the number.
kMaxAndroidEventsPerFrame == 2

\* Calls of ReceiveGamepadEvent a producer makes in one run.
MaxOffers == 3

-----------------------------------------------------------------------------
(* Button                                                                  *)

\* Button::Button(): all three fields false.
NewButton == [is_down |-> FALSE, went_down |-> FALSE, went_up |-> FALSE]

\* A button update that recomputes the edge flags from this call alone.
ButtonUpdateClobber(b, down) ==
  [is_down |-> down,
   went_down |-> (~b.is_down /\ down),
   went_up |-> (b.is_down /\ ~down)]

\* Button::Update(bool down)
ButtonUpdate(b, down) ==
  LET edged == IF ~b.is_down /\ down THEN [b EXCEPT !.went_down = TRUE]
               ELSE IF b.is_down /\ ~down THEN [b EXCEPT !.went_up = TRUE]
               ELSE b
  IN  [edged EXCEPT !.is_down = down]

\* Button::AdvanceFrame(): clears the edge flags, keeps the level.
ButtonAdvanceFrame(b) ==
  [is_down |-> b.is_down, went_down |-> FALSE, went_up |-> FALSE]

\* InputSystem::GetButton(int button): the map after the lookup, which
\* inserts a fresh Button for an id not yet in the map.
GetButton(bm, button) ==
  IF button \in DOMAIN bm THEN bm ELSE bm @@ (button :> NewButton)

\* GetButton(button).Update(down)
UpdateButtonIn(bm, button, down) ==
  LET m == GetButton(bm, button)
  IN  [m EXCEPT ![button] = ButtonUpdate(@, down)]

\* Id of the first pointer button in the button map's key space.
SDLK_POINTER1 == 1000

\* InputSystem::GetPointerButton(int pointer): its key in the button map.
PointerButtonId(pointer) == SDLK_POINTER1 + pointer

-----------------------------------------------------------------------------
(* Gamepad (ANDROID_GAMEPAD)                                               *)

\* enum Gamepad::GamepadInputButton
kInvalid == -1
kUp == 0
kDown == 1
kLeft == 2
kRight == 3
kButtonA == 4
kButtonB == 5
kButtonC == 6
kControlCount == 7

\* Deadzone of the gamepad's analog stick, in tenths (0.5).  Stick positions
\* are modelled in tenths as well.
kGamepadHatThreshold == 5

\* android/keycodes.h and android/input.h
AKEYCODE_DPAD_UP == 19
AKEYCODE_DPAD_DOWN == 20
AKEYCODE_DPAD_LEFT == 21
AKEYCODE_DPAD_RIGHT == 22
AKEYCODE_DPAD_CENTER == 23
AKEYCODE_BUTTON_A == 96
AKEYCODE_BUTTON_B == 97
AKEYCODE_BUTTON_C == 98
AKEY_EVENT_ACTION_DOWN == 0
AKEY_EVENT_ACTION_UP == 1
AMOTION_EVENT_ACTION_MOVE == 2

\* kJavaToGamepadMap[] of Gamepad::GetGamepadCodeFromJavaKeyCode, entry i of
\* the array at position i + 1.
kJavaToGamepadMap ==
  << [java_keycode |-> AKEYCODE_DPAD_UP,     gamepad_code |-> kUp],
     [java_keycode |-> AKEYCODE_DPAD_DOWN,   gamepad_code |-> kDown],
     [java_keycode |-> AKEYCODE_DPAD_LEFT,   gamepad_code |-> kLeft],
     [java_keycode |-> AKEYCODE_DPAD_RIGHT,  gamepad_code |-> kRight],
     [java_keycode |-> AKEYCODE_DPAD_CENTER, gamepad_code |-> kButtonA],
     [java_keycode |-> AKEYCODE_BUTTON_A,    gamepad_code |-> kButtonA],
     [java_keycode |-> AKEYCODE_BUTTON_B,    gamepad_code |-> kButtonB],
     [java_keycode |-> AKEYCODE_BUTTON_C,    gamepad_code |-> kButtonC] >>

\* The loop of GetGamepadCodeFromJavaKeyCode from index i on: the code of the
\* first entry with the keycode among entries i .. kControlCount - 1.
RECURSIVE MapLookupFrom(_, _)
MapLookupFrom(i, java_keycode) ==
  IF ~(i < kControlCount) THEN kInvalid
  ELSE IF kJavaToGamepadMap[i + 1].java_keycode = java_keycode
       THEN kJavaToGamepadMap[i + 1].gamepad_code
       ELSE MapLookupFrom(i + 1, java_keycode)

\* Gamepad::GetGamepadCodeFromJavaKeyCode(int java_keycode)
GetGamepadCodeFromJavaKeyCode(java_keycode) == MapLookupFrom(0, java_keycode)

\* Gamepad::Gamepad(): kControlCount buttons, all up.
NewGamepad(id) ==
  [controller_id |-> id, button_list |-> [i \in 0 .. kControlCount - 1 |-> NewButton]]

\* InputSystem::GetGamepad(id): the map after the lookup, which creates the
\* Gamepad of a device id not yet in the map.
GetGamepad(gm, id) == IF id \in DOMAIN gm THEN gm ELSE gm @@ (id :> NewGamepad(id))

\* gamepad.GetButton(index).Update(down)
GamepadButtonUpdate(g, index, down) ==
  [g EXCEPT !.button_list[index] = ButtonUpdate(@, down)]

\* Gamepad::AdvanceFrame()
GamepadAdvanceFrame(g) ==
  [g EXCEPT !.button_list = [i \in DOMAIN @ |-> ButtonAdvanceFrame(@[i])]]

\* case AMOTION_EVENT_ACTION_MOVE with the deadzone included in the direction.
OnGamepadMotionInclusive(gamepad, event) ==
  LET left  == event.x <= -kGamepadHatThreshold
      right == event.x >= kGamepadHatThreshold
      up    == event.y <= -kGamepadHatThreshold
      down  == event.y >= kGamepadHatThreshold
      g1 == GamepadButtonUpdate(gamepad, kLeft, left)
      g2 == GamepadButtonUpdate(g1, kRight, right)
      g3 == GamepadButtonUpdate(g2, kUp, up)
  IN  GamepadButtonUpdate(g3, kDown, down)

\* case AMOTION_EVENT_ACTION_MOVE of HandleGamepadEvents
OnGamepadMotion(gamepad, event) ==
  LET left  == event.x < -kGamepadHatThreshold
      right == event.x > kGamepadHatThreshold
      up    == event.y < -kGamepadHatThreshold
      down  == event.y > kGamepadHatThreshold
      g1 == GamepadButtonUpdate(gamepad, kLeft, left)
      g2 == GamepadButtonUpdate(g1, kRight, right)
      g3 == GamepadButtonUpdate(g2, kUp, up)
  IN  GamepadButtonUpdate(g3, kDown, down)

\* One iteration of the loop of InputSystem::HandleGamepadEvents, after the
\* pop: the gamepad map once `event` has been interpreted.
HandleGamepadEvent(gm, event) ==
  LET m == GetGamepad(gm, event.device_id)
      gamepad == m[event.device_id]
      button_index == GetGamepadCodeFromJavaKeyCode(event.control_code)
  IN  CASE event.event_code = AKEY_EVENT_ACTION_DOWN ->
             IF button_index # kInvalid
             THEN [m EXCEPT ![event.device_id] =
                               GamepadButtonUpdate(gamepad, button_index, TRUE)]
             ELSE m
        [] event.event_code = AKEY_EVENT_ACTION_UP ->
             IF button_index # kInvalid
             THEN [m EXCEPT ![event.device_id] =
                               GamepadButtonUpdate(gamepad, button_index, FALSE)]
             ELSE m
        [] event.event_code = AMOTION_EVENT_ACTION_MOVE ->
             [m EXCEPT ![event.device_id] = OnGamepadMotion(gamepad, event)]
        [] OTHER -> m

\* The whole loop of HandleGamepadEvents when no producer runs beside it: the
\* queued events interpreted front to back.
RECURSIVE DrainGamepadEvents(_, _)
DrainGamepadEvents(gm, events) ==
  IF events = <<>> THEN gm
  ELSE DrainGamepadEvents(HandleGamepadEvent(gm, Head(events)), Tail(events))

-----------------------------------------------------------------------------
(* Cardboard (ANDROID_CARDBOARD)                                           *)

\* CardboardInput::CardboardInput()
NewCardboard == [pending_trigger |-> FALSE, triggered |-> FALSE]

\* CardboardInput::OnCardboardTrigger()
OnCardboardTrigger(c) == [c EXCEPT !.pending_trigger = TRUE]

\* CardboardInput::AdvanceFrame(), the trigger latch (the eye transforms are
\* not modelled).
CardboardAdvanceFrame(c) ==
  IF c.pending_trigger # c.triggered
  THEN [pending_trigger |-> FALSE, triggered |-> c.pending_trigger]
  ELSE c

-----------------------------------------------------------------------------
(* Pointers                                                                *)

Slots == 0 .. NumPointers - 1

\* mathfu::kZeros2i
kZeros2i == <<0, 0>>

\* vec2i operator+
Vec2iAdd(a, b) == <<a[1] + b[1], a[2] + b[2]>>

\* Pointer::Pointer(): id 0, not used, no delta (the position a new Pointer
\* starts with is taken to be the origin).
NewPointer == [id |-> 0, used |-> FALSE, mousepos |-> kZeros2i,
               mousedelta |-> kZeros2i]

\* for (it = pointers_.begin(); ...) it->mousedelta = mathfu::kZeros2i;
ResetPointers(ptrs) == [i \in DOMAIN ptrs |-> [ptrs[i] EXCEPT !.mousedelta = kZeros2i]]

\* The float q (a fraction num/den) times the int size, converted to int:
\* the conversion truncates toward zero.
ScaleToInt(q, size) ==
  LET n == q.num * size
  IN  IF n >= 0 THEN n \div q.den ELSE -((-n) \div q.den)

\* vec2i(vec2(x, y) * vec2(window_size))
ScaleToVec2i(x, y, size) == <<ScaleToInt(x, size[1]), ScaleToInt(y, size[2])>>

\* The window size the caller of AdvanceFrame passes (no resize is modelled).
window_size == <<4, 2>>

\* InputSystem::RemovePointer(size_t i)
RemovePointer(ptrs, i) == [ptrs EXCEPT ![i].used = FALSE]

\* A FindPointer whose second loop starts at slot 1.
FindPointerFromOne(ptrs, id) ==
  LET held == {i \in Slots : ptrs[i].used /\ ptrs[i].id = id}
      free == {i \in Slots \ {0} : ~ptrs[i].used}
      first(S) == CHOOSE i \in S : \A j \in S : i <= j
  IN  IF held # {}
      THEN [slot |-> first(held), pointers |-> ptrs, failed |-> FALSE]
      ELSE IF free # {}
      THEN [slot |-> first(free),
            pointers |-> [ptrs EXCEPT ![first(free)] = [@ EXCEPT !.id = id, !.used = TRUE]],
            failed |-> FALSE]
      ELSE [slot |-> 0, pointers |-> ptrs, failed |-> TRUE]

\* InputSystem::FindPointer(FingerId id): the slot returned, the pointer table
\* afterwards, and whether the assert(0) after the two loops was reached (the
\* release build then returns 0).
FindPointer(ptrs, id) ==
  LET held == {i \in Slots : ptrs[i].used /\ ptrs[i].id = id}
      free == {i \in Slots : ~ptrs[i].used}
      first(S) == CHOOSE i \in S : \A j \in S : i <= j
  IN  IF held # {}
      THEN [slot |-> first(held), pointers |-> ptrs, failed |-> FALSE]
      ELSE IF free # {}
      THEN [slot |-> first(free),
            pointers |-> [ptrs EXCEPT ![first(free)] = [@ EXCEPT !.id = id, !.used = TRUE]],
            failed |-> FALSE]
      ELSE [slot |-> 0, pointers |-> ptrs, failed |-> TRUE]

\* InputSystem::UpdateDragPosition(event, event_type, window_size):
\* `fingers` is what SDL_GetTouchFinger lists at the time of the call.
UpdateDragPosition(ptrs, fingers, event, size) ==
  IF event.fingerId \in fingers
  THEN LET r == FindPointer(ptrs, event.fingerId)
           j == r.slot
           q == IF event.type = "SDL_FINGERUP" THEN RemovePointer(r.pointers, j)
                ELSE r.pointers
       IN  [slot |-> j,
            pointers |-> [q EXCEPT
              ![j].mousepos = ScaleToVec2i(event.x, event.y, size),
              ![j].mousedelta = Vec2iAdd(@, ScaleToVec2i(event.dx, event.dy, size))],
            failed |-> r.failed]
  ELSE [slot |-> 0, pointers |-> ptrs, failed |-> FALSE]

-----------------------------------------------------------------------------
(* Joysticks                                                               *)

\* Joystick::Joystick(): no handle (0 stands for nullptr), no controls yet.
NewJoystick == [joystick_data |-> 0, button_list |-> <<>>, axis_list |-> <<>>,
                hat_list |-> <<>>]

\* Maximum range (+/-) generated by joystick axis events.
kJoystickAxisRange == 32767

\* JoystickAxis(): value 0.  A float is kept as the quotient num / den.
NewJoystickAxis == [num |-> 0, den |-> 1]

\* JoystickHat(): value (0, 0).
NewJoystickHat == <<0, 0>>

\* A vector resized to hold index (element index at position index + 1).
ResizedFor(list, index, new) ==
  IF index >= Len(list)
  THEN list \o [i \in 1 .. index + 1 - Len(list) |-> new]
  ELSE list

\* sdl_event->jaxis.value / kJoystickAxisRange
NormalizeAxis(value) == [num |-> value, den |-> kJoystickAxisRange]

\* Joystick::GetAxis(axis_index).Update(value)
JoystickAxisUpdate(j, axis_index, value) ==
  [j EXCEPT !.axis_list =
     [ResizedFor(@, axis_index, NewJoystickAxis) EXCEPT ![axis_index + 1] = value]]

\* InputSystem::ConvertHatToVector
ConvertHatToVector(hat_enum) ==
  CASE hat_enum = "SDL_HAT_LEFTUP" -> <<-1, -1>>
    [] hat_enum = "SDL_HAT_UP" -> <<0, -1>>
    [] hat_enum = "SDL_HAT_RIGHTUP" -> <<1, -1>>
    [] hat_enum = "SDL_HAT_LEFT" -> <<-1, 0>>
    [] hat_enum = "SDL_HAT_CENTERED" -> <<0, 0>>
    [] hat_enum = "SDL_HAT_RIGHT" -> <<1, 0>>
    [] hat_enum = "SDL_HAT_LEFTDOWN" -> <<-1, 1>>
    [] hat_enum = "SDL_HAT_DOWN" -> <<0, 1>>
    [] hat_enum = "SDL_HAT_RIGHTDOWN" -> <<1, 1>>
    [] OTHER -> <<0, 0>>

\* Joystick::GetHat(hat_index).Update(value)
JoystickHatUpdate(j, hat_index, value) ==
  [j EXCEPT !.hat_list =
     [ResizedFor(@, hat_index, NewJoystickHat) EXCEPT ![hat_index + 1] = value]]

\* Joystick::GetButton(button_index).Update(down): the list is resized to
\* hold the index (element button_index of the vector at position
\* button_index + 1).
JoystickButtonUpdate(j, button_index, down) ==
  LET n == Len(j.button_list)
      resized == IF button_index >= n
                 THEN j.button_list \o [i \in 1 .. button_index + 1 - n |-> NewButton]
                 ELSE j.button_list
  IN  [j EXCEPT !.button_list = [resized EXCEPT ![button_index + 1] = ButtonUpdate(@, down)]]

\* A frame reset of the joystick that leaves its buttons as they are.
JoystickAdvanceFrameSkip(j) == j

\* Joystick::AdvanceFrame(): the buttons (axes and hats keep no per-frame
\* state).
JoystickAdvanceFrame(j) ==
  [j EXCEPT !.button_list = [i \in DOMAIN @ |-> ButtonAdvanceFrame(@[i])]]

\* An enumeration that gives every connected instance id a fresh Joystick.
UpdateConnectedJoystickListReset(jm, connected) ==
  [id \in DOMAIN jm \cup connected |->
     IF id \in connected THEN [NewJoystick EXCEPT !.joystick_data = id]
     ELSE [jm[id] EXCEPT !.joystick_data = 0]]

\* InputSystem::OpenConnectedJoysticks() after CloseOpenJoysticks(), as
\* Initialize runs them: every handle dropped, then a Joystick found or
\* created for each connected instance id and bound to its handle (the
\* instance id stands for the SDL_Joystick pointer).
UpdateConnectedJoystickList(jm, connected) ==
  LET closed == [id \in DOMAIN jm |-> [jm[id] EXCEPT !.joystick_data = 0]]
  IN  [id \in DOMAIN jm \cup connected |->
         LET j == IF id \in DOMAIN jm THEN closed[id] ELSE NewJoystick
         IN  IF id \in connected THEN [j EXCEPT !.joystick_data = id] ELSE j]

\* A button event that creates the Joystick it does not find.
HandleJoystickButtonCreate(jm, event) ==
  LET j == IF event.which \in DOMAIN jm THEN jm[event.which] ELSE NewJoystick
  IN  [joystick_map |->
         [id \in DOMAIN jm \cup {event.which} |->
            IF id = event.which
            THEN JoystickButtonUpdate(j, event.button, event.state = "SDL_PRESSED")
            ELSE jm[id]],
       failed |-> FALSE]

\* InputSystem::HandleJoystickEvent for SDL_JOYBUTTONDOWN / SDL_JOYBUTTONUP:
\* GetJoystick asserts that the instance id is registered.
HandleJoystickButton(jm, event) ==
  IF event.which \in DOMAIN jm
  THEN [joystick_map |-> [jm EXCEPT ![event.which] =
                            JoystickButtonUpdate(@, event.button, event.state = "SDL_PRESSED")],
        failed |-> FALSE]
  ELSE [joystick_map |-> jm, failed |-> TRUE]

\* InputSystem::HandleJoystickEvent for SDL_JOYAXISMOTION.
HandleJoystickAxis(jm, event) ==
  IF event.which \in DOMAIN jm
  THEN [joystick_map |-> [jm EXCEPT ![event.which] =
                            JoystickAxisUpdate(@, event.axis, NormalizeAxis(event.value))],
        failed |-> FALSE]
  ELSE [joystick_map |-> jm, failed |-> TRUE]

\* InputSystem::HandleJoystickEvent for SDL_JOYHATMOTION.
HandleJoystickHat(jm, event) ==
  IF event.which \in DOMAIN jm
  THEN [joystick_map |-> [jm EXCEPT ![event.which] =
                            JoystickHatUpdate(@, event.hat, ConvertHatToVector(event.value))],
        failed |-> FALSE]
  ELSE [joystick_map |-> jm, failed |-> TRUE]

-----------------------------------------------------------------------------
(* The per-frame reset of InputSystem::AdvanceFrame                        *)

\* A reset that leaves the Buttons of the button map as they are.
ResetButtonMapSkip(bm) == bm

ResetButtonMap(bm) == [k \in DOMAIN bm |-> ButtonAdvanceFrame(bm[k])]

ResetJoystickMap(jm) == [id \in DOMAIN jm |-> JoystickAdvanceFrame(jm[id])]

ResetGamepadMap(gm) == [id \in DOMAIN gm |-> GamepadAdvanceFrame(gm[id])]

\* A reset that clears the log whether or not it is being recorded.
ClearTextInputAlways(events, record) == <<>>

\* if (!record_text_input_) text_input_events_.clear();
ClearTextInput(events, record) == IF ~record THEN <<>> ELSE events

-----------------------------------------------------------------------------
(* One iteration of the SDL_PollEvent loop of InputSystem::AdvanceFrame    *)

\* The input state the event switch works on.
Sys == [button_map |-> button_map, pointers |-> pointers,
        joystick_map |-> joystick_map, cardboard |-> cardboard,
        assert_failed |-> assert_failed,
        text_input_events |-> text_input_events,
        record_text_input |-> record_text_input,
        exit_requested |-> exit_requested,
        mousewheel_delta |-> mousewheel_delta]

Pressed(event) == event.state = "SDL_PRESSED"

\* text_input_events_.emplace_back(...) under if (record_text_input_)
Record(s, entry) ==
  IF s.record_text_input
  THEN [s EXCEPT !.text_input_events = Append(@, entry)]
  ELSE s

\* A quit handler that flips the flag.
OnQuitToggle(s) == [s EXCEPT !.exit_requested = ~@]

\* case SDL_QUIT
OnQuit(s) == [s EXCEPT !.exit_requested = TRUE]

\* case SDL_KEYDOWN / SDL_KEYUP
OnKey(s, event) ==
  Record([s EXCEPT !.button_map = UpdateButtonIn(@, event.sym, Pressed(event))],
         [type |-> "kTextInputEventTypeKey", state |-> event.state,
          symbol |-> event.sym])

\* case SDL_TEXTEDITING
OnTextEditing(s, event) ==
  Record(s, [type |-> "kTextInputEventTypeEdit", text |-> event.text])

\* case SDL_TEXTINPUT
OnTextInput(s, event) ==
  Record(s, [type |-> "kTextInputEventTypeText", text |-> event.text])

\* case SDL_FINGERDOWN (PLATFORM_MOBILE)
OnFingerDown(s, fingers, event) ==
  LET r == UpdateDragPosition(s.pointers, fingers, event, window_size)
  IN  [s EXCEPT !.pointers = r.pointers,
                !.assert_failed = @ \/ r.failed,
                !.button_map = UpdateButtonIn(@, PointerButtonId(r.slot), TRUE)]

\* case SDL_FINGERUP (PLATFORM_MOBILE)
OnFingerUp(s, event) ==
  LET r == FindPointer(s.pointers, event.fingerId)
  IN  [s EXCEPT !.pointers = RemovePointer(r.pointers, r.slot),
                !.assert_failed = @ \/ r.failed,
                !.button_map = UpdateButtonIn(@, PointerButtonId(r.slot), FALSE)]

\* case SDL_FINGERMOTION (PLATFORM_MOBILE)
OnFingerMotion(s, fingers, event) ==
  LET r == UpdateDragPosition(s.pointers, fingers, event, window_size)
  IN  [s EXCEPT !.pointers = r.pointers, !.assert_failed = @ \/ r.failed]

\* case SDL_MOUSEBUTTONDOWN / SDL_MOUSEBUTTONUP (ANDROID_CARDBOARD)
OnMouseButton(s, event) ==
  [s EXCEPT !.button_map = UpdateButtonIn(@, PointerButtonId(event.button - 1), Pressed(event)),
            !.pointers = [@ EXCEPT ![0].mousepos = <<event.x, event.y>>,
                                   ![0].used = TRUE],
            !.cardboard = IF Pressed(event) THEN OnCardboardTrigger(@) ELSE @]

\* case SDL_MOUSEMOTION (the position is read through event.button, which
\* shares the offsets of x and y with event.motion)
OnMouseMotion(s, event) ==
  [s EXCEPT !.pointers = [@ EXCEPT
     ![0].mousedelta = Vec2iAdd(@, <<event.xrel, event.yrel>>),
     ![0].mousepos = <<event.x, event.y>>]]

\* A wheel handler that keeps the last event only.
OnMouseWheelAssign(s, event) ==
  [s EXCEPT !.mousewheel_delta = <<event.x, event.y>>]

\* case SDL_MOUSEWHEEL
OnMouseWheel(s, event) ==
  [s EXCEPT !.mousewheel_delta = Vec2iAdd(@, <<event.x, event.y>>)]

\* case SDL_JOYBUTTONDOWN / SDL_JOYBUTTONUP
OnJoyButton(s, event) ==
  LET r == HandleJoystickButton(s.joystick_map, event)
  IN  [s EXCEPT !.joystick_map = r.joystick_map, !.assert_failed = @ \/ r.failed]

\* case SDL_JOYAXISMOTION
OnJoyAxis(s, event) ==
  LET r == HandleJoystickAxis(s.joystick_map, event)
  IN  [s EXCEPT !.joystick_map = r.joystick_map, !.assert_failed = @ \/ r.failed]

\* case SDL_JOYHATMOTION
OnJoyHat(s, event) ==
  LET r == HandleJoystickHat(s.joystick_map, event)
  IN  [s EXCEPT !.joystick_map = r.joystick_map, !.assert_failed = @ \/ r.failed]

\* case SDL_JOYDEVICEADDED / SDL_JOYDEVICEREMOVED: the registry is
\* re-enumerated against the joysticks SDL lists now.
OnJoyDevice(s, joysticks) ==
  [s EXCEPT !.joystick_map = UpdateConnectedJoystickList(@, joysticks)]

\* The switch on event.type.
Dispatch(s, fingers, joysticks, event) ==
  CASE event.type = "SDL_QUIT" -> OnQuit(s)
    [] event.type \in {"SDL_KEYDOWN", "SDL_KEYUP"} -> OnKey(s, event)
    [] event.type = "SDL_TEXTEDITING" -> OnTextEditing(s, event)
    [] event.type = "SDL_TEXTINPUT" -> OnTextInput(s, event)
    [] event.type = "SDL_FINGERDOWN" -> OnFingerDown(s, fingers, event)
    [] event.type = "SDL_FINGERUP" -> OnFingerUp(s, event)
    [] event.type = "SDL_FINGERMOTION" -> OnFingerMotion(s, fingers, event)
    [] event.type \in {"SDL_MOUSEBUTTONDOWN", "SDL_MOUSEBUTTONUP"} -> OnMouseButton(s, event)
    [] event.type = "SDL_MOUSEMOTION" -> OnMouseMotion(s, event)
    [] event.type = "SDL_MOUSEWHEEL" -> OnMouseWheel(s, event)
    [] event.type \in {"SDL_JOYBUTTONDOWN", "SDL_JOYBUTTONUP"} -> OnJoyButton(s, event)
    [] event.type = "SDL_JOYAXISMOTION" -> OnJoyAxis(s, event)
    [] event.type = "SDL_JOYHATMOTION" -> OnJoyHat(s, event)
    [] event.type \in {"SDL_JOYDEVICEADDED", "SDL_JOYDEVICEREMOVED"} -> OnJoyDevice(s, joysticks)
    [] OTHER -> s

-----------------------------------------------------------------------------
(* The simulation thread: InputSystem::AdvanceFrame                        *)

\* AdvanceFrame from its entry to the SDL_PollEvent loop, with no producer
\* inside ReceiveGamepadEvent: the per-frame reset, then HandleGamepadEvents
\* (lock, drain, clear, unlock).
FrameBegin ==
  /\ pc = "idle"
  /\ android_event_mutex = "free"
  /\ button_map' = ResetButtonMap(button_map)
  /\ joystick_map' = ResetJoystickMap(joystick_map)
  /\ gamepad_map' = DrainGamepadEvents(ResetGamepadMap(gamepad_map), unhandled)
  /\ unhandled' = <<>>
  /\ pc' = "poll"
  /\ text_input_events' = ClearTextInput(text_input_events, record_text_input)
  /\ mousewheel_delta' = kZeros2i
  /\ pointers' = ResetPointers(pointers)
  /\ UNCHANGED <<exit_requested, appvars>>
  /\ UNCHANGED <<cardboard, assert_failed, android_event_mutex,
                 consumer, producers, sdl_queue, sdl_fingers, sdl_joysticks>>

\* while (SDL_PollEvent(&event)) { switch (event.type) ... }: one event.
PollEvent ==
  /\ pc = "poll"
  /\ sdl_queue # <<>>
  /\ LET s == Dispatch(Sys, sdl_fingers, sdl_joysticks, Head(sdl_queue))
     IN  /\ button_map' = s.button_map
         /\ pointers' = s.pointers
         /\ joystick_map' = s.joystick_map
         /\ cardboard' = s.cardboard
         /\ assert_failed' = s.assert_failed
         /\ text_input_events' = s.text_input_events
         /\ exit_requested' = s.exit_requested
         /\ mousewheel_delta' = s.mousewheel_delta
  /\ sdl_queue' = Tail(sdl_queue)
  /\ UNCHANGED appvars
  /\ UNCHANGED <<pc, gamepad_map, unhandled, android_event_mutex, consumer,
                 producers, sdl_fingers, sdl_joysticks>>

\* SDL_PollEvent returns 0; cardboard_input_.AdvanceFrame(); return.
FrameEnd ==
  /\ pc = "poll"
  /\ sdl_queue = <<>>
  /\ cardboard' = CardboardAdvanceFrame(cardboard)
  /\ pc' = "idle"
  /\ UNCHANGED <<text_input_events, exit_requested, mousewheel_delta, appvars>>
  /\ UNCHANGED <<button_map, pointers, joystick_map, gamepad_map, assert_failed,
                 unhandled, android_event_mutex, consumer, producers,
                 sdl_queue, sdl_fingers, sdl_joysticks>>

-----------------------------------------------------------------------------
(* Construction                                                            *)

\* The Java threads that call nativeOnGamepadInput.
Producers == {"java1", "java2"}

\* The local `AndroidInputEvent event` before its first assignment.
NoEvent == [device_id |-> 0, event_code |-> -1, control_code |-> 0, x |-> 0, y |-> 0]

\* The state after the constructors and InputSystem::Initialize(), with the
\* joysticks `connected` plugged in.
InitProgram(connected) ==
  /\ pc = "idle"
  /\ button_map = [k \in {} |-> NewButton]
  /\ pointers = [i \in Slots |-> NewPointer]
  /\ joystick_map = UpdateConnectedJoystickList([id \in {} |-> NewJoystick], connected)
  /\ gamepad_map = [id \in {} |-> NewGamepad(id)]
  /\ cardboard = NewCardboard
  /\ assert_failed = FALSE
  /\ unhandled = <<>>
  /\ android_event_mutex = "free"
  /\ consumer = [event |-> NoEvent]
  /\ producers = [t \in Producers |-> [pc |-> "idle", event |-> NoEvent]]
  /\ sdl_queue = <<>>
  /\ sdl_fingers = {}
  /\ sdl_joysticks = connected
  /\ text_input_events = <<>>
  /\ record_text_input = FALSE
  /\ exit_requested = FALSE
  /\ mousewheel_delta = kZeros2i
  /\ app_event_callbacks = <<>>
  /\ minimized = FALSE

-----------------------------------------------------------------------------
(* The platform: SDL fills its event queue                                 *)

\* SDL queues an event for the next SDL_PollEvent.
SdlPush(event) ==
  /\ Len(sdl_queue) < MaxPending
  /\ sdl_queue' = Append(sdl_queue, event)
  /\ UNCHANGED <<text_input_events, exit_requested, mousewheel_delta, appvars>>
  /\ UNCHANGED <<pc, button_map, pointers, joystick_map, gamepad_map, cardboard,
                 assert_failed, unhandled, android_event_mutex, consumer,
                 producers, sdl_joysticks>>

\* A key goes down (or repeats) or up.
KeyEvent(sym, pressed) ==
  /\ SdlPush([type |-> IF pressed THEN "SDL_KEYDOWN" ELSE "SDL_KEYUP",
              sym |-> sym,
              state |-> IF pressed THEN "SDL_PRESSED" ELSE "SDL_RELEASED"])
  /\ UNCHANGED sdl_fingers

-----------------------------------------------------------------------------
(* SpecKeys: the keyboard path, Button::Update under AdvanceFrame          *)

Keys == {1, 2}

\* The button of a key, a fresh one while the map does not hold it.
ButtonOf(bm, k) == IF k \in DOMAIN bm THEN bm[k] ELSE NewButton

\* The observer of a key: since the last frame reset, whether the level the
\* Update calls carried went from up to down, from down to up, and the level
\* of the last call (of the reset, when there was none).
InitKeys ==
  /\ InitProgram({})
  /\ hist = [saw_down |-> [k \in Keys |-> FALSE],
             saw_up |-> [k \in Keys |-> FALSE],
             level |-> [k \in Keys |-> FALSE],
             updates |-> [k \in Keys |-> 0]]

ObserveReset ==
  hist' = [saw_down |-> [k \in Keys |-> FALSE],
           saw_up |-> [k \in Keys |-> FALSE],
           level |-> [k \in Keys |-> ButtonOf(button_map, k).is_down],
           updates |-> [k \in Keys |-> 0]]

ObserveUpdate ==
  LET event == Head(sdl_queue)
      k == event.sym
      down == Pressed(event)
  IN  hist' = [saw_down |-> [hist.saw_down EXCEPT ![k] = @ \/ (~hist.level[k] /\ down)],
               saw_up |-> [hist.saw_up EXCEPT ![k] = @ \/ (hist.level[k] /\ ~down)],
               level |-> [hist.level EXCEPT ![k] = down],
               updates |-> [hist.updates EXCEPT ![k] = IF @ < MaxPending THEN @ + 1 ELSE @]]

NextKeys ==
  \/ \E k \in Keys, down \in BOOLEAN : KeyEvent(k, down) /\ UNCHANGED hist
  \/ FrameBegin /\ ObserveReset
  \/ PollEvent /\ ObserveUpdate
  \/ FrameEnd /\ UNCHANGED hist

SpecKeys == InitKeys /\ [][NextKeys]_vars

\* C1: between two frame resets a Button's went_down is true iff some Update
\* took the level from up to down, went_up iff some Update took it from down
\* to up, and is_down is the level of the last Update (the level at the reset
\* when there was none); a flag once set stays set until the reset, and the
\* reset clears both flags and keeps is_down.
C1_ButtonEdges ==
  \A k \in Keys :
    LET b == ButtonOf(button_map, k)
    IN  /\ b.went_down = hist.saw_down[k]
        /\ b.went_up = hist.saw_up[k]
        /\ b.is_down = hist.level[k]

\* A button pressed, released and pressed again within one frame.
C1_Witness ==
  \E k \in Keys :
    /\ k \in DOMAIN button_map
    /\ hist.updates[k] >= 3
    /\ button_map[k].went_down /\ button_map[k].went_up /\ button_map[k].is_down

-----------------------------------------------------------------------------
(* The Java thread, when its call does not overlap another call or the     *)
(* drain                                                                   *)

\* A call with the right-hand side of the capacity test off by one.
ReceiveGamepadEventOffByOne(event) ==
  /\ android_event_mutex = "free"
  /\ unhandled' = IF Len(unhandled) <= kMaxAndroidEventsPerFrame
                  THEN Append(unhandled, event) ELSE unhandled
  /\ UNCHANGED <<text_input_events, exit_requested, mousewheel_delta, appvars>>
  /\ UNCHANGED <<pc, button_map, pointers, joystick_map, gamepad_map, cardboard,
                 assert_failed, android_event_mutex, consumer, producers,
                 sdl_queue, sdl_fingers, sdl_joysticks>>

\* InputSystem::ReceiveGamepadEvent(device_id, event_code, control_code, x, y),
\* run from entry to return while nobody holds the mutex.
ReceiveGamepadEvent(event) ==
  /\ android_event_mutex = "free"
  /\ unhandled' = IF Len(unhandled) < kMaxAndroidEventsPerFrame
                  THEN Append(unhandled, event) ELSE unhandled
  /\ UNCHANGED <<text_input_events, exit_requested, mousewheel_delta, appvars>>
  /\ UNCHANGED <<pc, button_map, pointers, joystick_map, gamepad_map, cardboard,
                 assert_failed, android_event_mutex, consumer, producers,
                 sdl_queue, sdl_fingers, sdl_joysticks>>

\* AndroidInputEvent(device_id, event_code, control_code, x, y)
AndroidInputEvent(device_id, event_code, control_code, x, y) ==
  [device_id |-> device_id, event_code |-> event_code,
   control_code |-> control_code, x |-> x, y |-> y]

\* A joystick button goes down or up.
JoyButtonEvent(which, button, pressed) ==
  /\ SdlPush([type |-> IF pressed THEN "SDL_JOYBUTTONDOWN" ELSE "SDL_JOYBUTTONUP",
              which |-> which, button |-> button,
              state |-> IF pressed THEN "SDL_PRESSED" ELSE "SDL_RELEASED"])
  /\ UNCHANGED sdl_fingers

-----------------------------------------------------------------------------
(* SpecFrame: keyboard, joystick and gamepad under AdvanceFrame            *)

\* Events SDL may hold in SpecFrame.
MaxFramePending == 1

\* Every Control the input system holds.
Controls == [button_map |-> button_map, joystick_map |-> joystick_map,
             gamepad_map |-> gamepad_map]

\* All Buttons of a set of controls.
ButtonsOf(c) ==
  {c.button_map[k] : k \in DOMAIN c.button_map}
  \cup UNION {{c.joystick_map[id].button_list[i] : i \in DOMAIN c.joystick_map[id].button_list}
                : id \in DOMAIN c.joystick_map}
  \cup UNION {{c.gamepad_map[id].button_list[i] : i \in DOMAIN c.gamepad_map[id].button_list}
                : id \in DOMAIN c.gamepad_map}

\* The is_down of every Button, place by place.
LevelsOf(c) ==
  [button_map |-> [k \in DOMAIN c.button_map |-> c.button_map[k].is_down],
   joystick_map |-> [id \in DOMAIN c.joystick_map |->
                       [i \in DOMAIN c.joystick_map[id].button_list |->
                          c.joystick_map[id].button_list[i].is_down]],
   gamepad_map |-> [id \in DOMAIN c.gamepad_map |->
                      [i \in DOMAIN c.gamepad_map[id].button_list |->
                         c.gamepad_map[id].button_list[i].is_down]]]

\* The controls of a freshly constructed input system with no joystick.
NoControls == [button_map |-> [k \in {} |-> NewButton],
               joystick_map |-> [id \in {} |-> NewJoystick],
               gamepad_map |-> [id \in {} |-> NewGamepad(id)]]

\* The observer of the frames: the controls as they were when the running (or
\* last) AdvanceFrame was entered, kept only while that call has consumed no
\* event; whether it has consumed one; and how many calls in a row have
\* returned without consuming one.
InitFrame ==
  /\ InitProgram({1})
  /\ hist = [before |-> NoControls, dirty |-> TRUE, quiet |-> 0]

NextFrame ==
  \/ /\ Len(sdl_queue) < MaxFramePending
     /\ \E down \in BOOLEAN : KeyEvent(1, down)
     /\ UNCHANGED hist
  \/ /\ Len(sdl_queue) < MaxFramePending
     /\ \E down \in BOOLEAN : JoyButtonEvent(1, 0, down)
     /\ UNCHANGED hist
  \/ /\ Len(unhandled) < MaxFramePending
     /\ \E code \in {AKEY_EVENT_ACTION_DOWN, AKEY_EVENT_ACTION_UP} :
          ReceiveGamepadEvent(AndroidInputEvent(1, code, AKEYCODE_BUTTON_A, 0, 0))
     /\ UNCHANGED hist
  \/ /\ FrameBegin
     /\ hist' = [hist EXCEPT !.before = IF unhandled = <<>> THEN Controls ELSE NoControls,
                             !.dirty = (unhandled # <<>>)]
  \/ /\ PollEvent
     /\ hist' = [hist EXCEPT !.before = NoControls, !.dirty = TRUE]
  \/ /\ FrameEnd
     /\ hist' = [hist EXCEPT !.quiet = IF hist.dirty THEN 0
                                       ELSE IF @ < 2 THEN @ + 1 ELSE @]

SpecFrame == InitFrame /\ [][NextFrame]_vars

\* C2: when AdvanceFrame has returned without consuming a platform or gamepad
\* event, every Control of the button map, of every joystick and of every
\* gamepad has went_down = went_up = false and the is_down it had when the
\* call was entered; when the call before it consumed none either, the Controls
\* are exactly what they were when the call was entered.
C2_QuietFrames ==
  (pc = "idle" /\ hist.quiet >= 1) =>
    /\ \A b \in ButtonsOf(Controls) : ~b.went_down /\ ~b.went_up
    /\ LevelsOf(Controls) = LevelsOf(hist.before)
    /\ hist.quiet >= 2 => Controls = hist.before

\* Two calls in a row consumed nothing while a key, a joystick button and a
\* gamepad button were held down.
C2_Witness ==
  /\ pc = "idle" /\ hist.quiet >= 2
  /\ 1 \in DOMAIN button_map /\ button_map[1].is_down
  /\ Len(joystick_map[1].button_list) > 0 /\ joystick_map[1].button_list[1].is_down
  /\ 1 \in DOMAIN gamepad_map /\ gamepad_map[1].button_list[kButtonA].is_down

-----------------------------------------------------------------------------
(* SpecCardboard: the trigger latch of CardboardInput                      *)

\* A mouse button goes down or up.
MouseButtonEvent(button, pressed) ==
  /\ SdlPush([type |-> IF pressed THEN "SDL_MOUSEBUTTONDOWN" ELSE "SDL_MOUSEBUTTONUP",
              button |-> button,
              state |-> IF pressed THEN "SDL_PRESSED" ELSE "SDL_RELEASED",
              x |-> 0, y |-> 0])
  /\ UNCHANGED sdl_fingers

\* Java_com_google_fpl_fpl_1base_FPLActivity_nativeOnCardboardTrigger:
\* InputSystem::OnCardboardTrigger().
NativeOnCardboardTrigger ==
  /\ cardboard' = OnCardboardTrigger(cardboard)
  /\ UNCHANGED <<text_input_events, exit_requested, mousewheel_delta, appvars>>
  /\ UNCHANGED <<pc, button_map, pointers, joystick_map, gamepad_map,
                 assert_failed, unhandled, android_event_mutex, consumer,
                 producers, sdl_queue, sdl_fingers, sdl_joysticks>>

\* The observer of the trigger: whether a trigger has arrived since the last
\* CardboardInput::AdvanceFrame, and whether one had arrived before that call
\* since the one before it.
InitCardboard ==
  /\ InitProgram({})
  /\ hist = [arrived |-> FALSE, last_arrived |-> FALSE]

NextCardboard ==
  \/ /\ \E button \in {1, 2}, down \in BOOLEAN : MouseButtonEvent(button, down)
     /\ UNCHANGED hist
  \/ /\ NativeOnCardboardTrigger
     /\ hist' = [hist EXCEPT !.arrived = TRUE]
  \/ /\ FrameBegin
     /\ UNCHANGED hist
  \/ /\ PollEvent
     /\ hist' = [hist EXCEPT !.arrived = @ \/ Pressed(Head(sdl_queue))]
  \/ /\ FrameEnd
     /\ hist' = [arrived |-> FALSE, last_arrived |-> hist.arrived]

SpecCardboard == InitCardboard /\ [][NextCardboard]_vars

\* C3: after each CardboardInput::AdvanceFrame the trigger flag is true iff a
\* trigger arrived since the AdvanceFrame before it (the flag changes nowhere
\* else, so it keeps that value until the next AdvanceFrame).
C3_TriggerOneFrame == cardboard.triggered = hist.last_arrived

-----------------------------------------------------------------------------
(* The simulation thread, HandleGamepadEvents statement by statement       *)

\* AdvanceFrame from its entry to the call of HandleGamepadEvents: the
\* per-frame reset.
FrameReset ==
  /\ pc = "idle"
  /\ button_map' = ResetButtonMap(button_map)
  /\ joystick_map' = ResetJoystickMap(joystick_map)
  /\ gamepad_map' = ResetGamepadMap(gamepad_map)
  /\ pc' = "gp_lock"
  /\ mousewheel_delta' = kZeros2i
  /\ pointers' = ResetPointers(pointers)
  /\ UNCHANGED <<text_input_events, exit_requested, appvars>>
  /\ UNCHANGED <<cardboard, assert_failed, unhandled,
                 android_event_mutex, consumer, producers, sdl_queue,
                 sdl_fingers, sdl_joysticks>>

\* pthread_mutex_lock(&android_event_mutex)
ConsumerLock ==
  /\ pc = "gp_lock"
  /\ android_event_mutex = "free"
  /\ android_event_mutex' = "sim"
  /\ pc' = "gp_loop"
  /\ UNCHANGED <<text_input_events, exit_requested, mousewheel_delta, appvars>>
  /\ UNCHANGED <<button_map, pointers, joystick_map, gamepad_map, cardboard,
                 assert_failed, unhandled, consumer, producers, sdl_queue,
                 sdl_fingers, sdl_joysticks>>

\* A pop that gives the mutex back before the event is interpreted.
ConsumerPopUnlock ==
  /\ pc = "gp_loop"
  /\ Len(unhandled) > 0
  /\ consumer' = [consumer EXCEPT !.event = Head(unhandled)]
  /\ unhandled' = Tail(unhandled)
  /\ android_event_mutex' = "free"
  /\ pc' = "gp_decode"
  /\ UNCHANGED <<text_input_events, exit_requested, mousewheel_delta, appvars>>
  /\ UNCHANGED <<button_map, pointers, joystick_map, gamepad_map, cardboard,
                 assert_failed, producers, sdl_queue, sdl_fingers,
                 sdl_joysticks>>

\* while (size() > 0) { event = front(); pop(); ...
ConsumerPop ==
  /\ pc = "gp_loop"
  /\ Len(unhandled) > 0
  /\ consumer' = [consumer EXCEPT !.event = Head(unhandled)]
  /\ unhandled' = Tail(unhandled)
  /\ pc' = "gp_decode"
  /\ UNCHANGED <<text_input_events, exit_requested, mousewheel_delta, appvars>>
  /\ UNCHANGED <<button_map, pointers, joystick_map, gamepad_map, cardboard,
                 assert_failed, android_event_mutex, producers, sdl_queue,
                 sdl_fingers, sdl_joysticks>>

\* ... GetGamepad(event.device_id); switch (event.event_code) ... }
ConsumerDecode ==
  /\ pc = "gp_decode"
  /\ gamepad_map' = HandleGamepadEvent(gamepad_map, consumer.event)
  /\ pc' = "gp_loop"
  /\ UNCHANGED <<text_input_events, exit_requested, mousewheel_delta, appvars>>
  /\ UNCHANGED <<button_map, pointers, joystick_map, cardboard, assert_failed,
                 unhandled, android_event_mutex, consumer, producers,
                 sdl_queue, sdl_fingers, sdl_joysticks>>

\* A drain that may stop and clear the queue while events are left in it.
ConsumerClearUnlockEarly ==
  /\ pc = "gp_loop"
  /\ unhandled' = <<>>
  /\ android_event_mutex' = "free"
  /\ pc' = "poll"
  /\ text_input_events' = ClearTextInput(text_input_events, record_text_input)
  /\ UNCHANGED <<exit_requested, mousewheel_delta, appvars>>
  /\ UNCHANGED <<button_map, pointers, joystick_map, gamepad_map, cardboard,
                 assert_failed, consumer, producers, sdl_queue, sdl_fingers,
                 sdl_joysticks>>

\* The loop ends; the queue is swapped with an empty one;
\* pthread_mutex_unlock(&android_event_mutex).
ConsumerClearUnlock ==
  /\ pc = "gp_loop"
  /\ ~(Len(unhandled) > 0)
  /\ unhandled' = <<>>
  /\ android_event_mutex' = "free"
  /\ pc' = "poll"
  /\ text_input_events' = ClearTextInput(text_input_events, record_text_input)
  /\ UNCHANGED <<exit_requested, mousewheel_delta, appvars>>
  /\ UNCHANGED <<button_map, pointers, joystick_map, gamepad_map, cardboard,
                 assert_failed, consumer, producers, sdl_queue, sdl_fingers,
                 sdl_joysticks>>

-----------------------------------------------------------------------------
(* SpecGamepad and SpecDecode: one Java thread whose calls do not overlap  *)
(* the drain                                                               *)

\* The first n elements of a sequence (all of it when it is shorter).
Take(seq, n) == SubSeq(seq, 1, IF Len(seq) < n THEN Len(seq) ELSE n)

\* The observer of the queue: the events offered to ReceiveGamepadEvent since
\* HandleGamepadEvents last took the lock; for the running or last drain the
\* events that had been offered when it took the lock, the events it has
\* interpreted, whether it has released the lock and the queue's length when
\* it did; the number of calls counted so far; the event interpreted last
\* since the frame reset and the gamepad map before that.
InitGamepad ==
  /\ InitProgram({})
  /\ hist = [offered |-> <<>>, at_lock |-> <<>>, processed |-> <<>>,
             done |-> FALSE, left |-> 0, total |-> 0,
             last |-> NoEvent, prev |-> gamepad_map]

\* The steps of a run in which the Java thread offers events of `Events`,
\* at most `max` of them in all when `counted`.
GamepadSteps(Events, counted, max) ==
  \/ /\ Len(hist.offered) < MaxOffers
     /\ counted => hist.total < max
     /\ \E event \in Events : ReceiveGamepadEvent(event)
                               /\ hist' = [hist EXCEPT !.offered = Append(@, event),
                                                       !.total = IF counted THEN @ + 1 ELSE @]
  \/ /\ FrameReset
     /\ hist' = [hist EXCEPT !.last = NoEvent, !.prev = gamepad_map']
  \/ /\ ConsumerLock
     /\ hist' = [hist EXCEPT !.offered = <<>>, !.at_lock = hist.offered,
                             !.processed = <<>>, !.done = FALSE]
  \/ /\ ConsumerPop
     /\ UNCHANGED hist
  \/ /\ ConsumerDecode
     /\ hist' = [hist EXCEPT !.processed = Append(@, consumer.event),
                             !.last = consumer.event, !.prev = gamepad_map]
  \/ /\ ConsumerClearUnlock
     /\ hist' = [hist EXCEPT !.done = TRUE, !.left = Len(unhandled')]
  \/ /\ FrameEnd
     /\ UNCHANGED hist

\* Three events that differ in device, key and action.
FewGamepadEvents ==
  {AndroidInputEvent(1, AKEY_EVENT_ACTION_DOWN, AKEYCODE_BUTTON_A, 0, 0),
   AndroidInputEvent(1, AKEY_EVENT_ACTION_UP, AKEYCODE_BUTTON_A, 0, 0),
   AndroidInputEvent(2, AKEY_EVENT_ACTION_DOWN, AKEYCODE_BUTTON_B, 0, 0)}

NextGamepad == GamepadSteps(FewGamepadEvents, FALSE, 0)

SpecGamepad == InitGamepad /\ [][NextGamepad]_vars

\* C4: a drain that found k events offered since the drain before it (the
\* queue was empty then) interprets exactly the first min(k, N) of them, in
\* the order offered and each as it was offered, N being
\* kMaxAndroidEventsPerFrame; the later ones were dropped, and the queue is
\* empty when the drain releases the lock.
C4_DrainFirstN ==
  hist.done =>
    /\ hist.processed = Take(hist.at_lock, kMaxAndroidEventsPerFrame)
    /\ hist.left = 0

\* A drain after more offers than the queue holds.
C4_Witness ==
  /\ hist.done
  /\ Len(hist.at_lock) > kMaxAndroidEventsPerFrame
  /\ Len(hist.processed) = kMaxAndroidEventsPerFrame
  /\ hist.at_lock[1] # hist.at_lock[2]

\* Events the Java thread offers in one run of SpecDecode.
MaxDecoded == 2

\* Stick positions in tenths, on both sides of the deadzone and on it.
StickValues == {-kGamepadHatThreshold - 1, -kGamepadHatThreshold, 0,
                kGamepadHatThreshold, kGamepadHatThreshold + 1}

\* The keycodes of the lookup table and one outside it (AKEYCODE_BUTTON_X).
SomeKeycodes == {kJavaToGamepadMap[i].java_keycode : i \in DOMAIN kJavaToGamepadMap} \cup {99}

\* Key downs and ups of those keycodes and stick motions, of one device.
ManyGamepadEvents ==
  {AndroidInputEvent(1, code, key, 0, 0) :
     code \in {AKEY_EVENT_ACTION_DOWN, AKEY_EVENT_ACTION_UP}, key \in SomeKeycodes}
  \cup {AndroidInputEvent(1, AMOTION_EVENT_ACTION_MOVE, 0, x, y) :
          x \in StickValues, y \in StickValues}

NextDecode == GamepadSteps(ManyGamepadEvents, TRUE, MaxDecoded)

SpecDecode == InitGamepad /\ [][NextDecode]_vars

\* The buttons of a gamepad in a gamepad map, those of a new gamepad while the
\* map does not hold the device.
ButtonListOf(gm, id) ==
  IF id \in DOMAIN gm THEN gm[id].button_list ELSE NewGamepad(id).button_list

\* C8: a key down or key up event whose keycode is one of the eight of the
\* lookup table updates the gamepad Button paired with that keycode (and no
\* other), and an event with any other keycode changes no Button.
C8_KeycodeUpdatesButton ==
  hist.last.event_code \in {AKEY_EVENT_ACTION_DOWN, AKEY_EVENT_ACTION_UP} =>
    LET id == hist.last.device_id
        before == ButtonListOf(hist.prev, id)
        paired == {kJavaToGamepadMap[i].gamepad_code :
                     i \in {j \in DOMAIN kJavaToGamepadMap :
                              kJavaToGamepadMap[j].java_keycode = hist.last.control_code}}
        down == hist.last.event_code = AKEY_EVENT_ACTION_DOWN
    IN  /\ id \in DOMAIN gamepad_map
        /\ gamepad_map[id].button_list =
             [i \in DOMAIN before |->
                IF i \in paired THEN ButtonUpdate(before[i], down) ELSE before[i]]

\* C9: after a motion event (x, y) is interpreted, with T the deadzone: kLeft
\* is down iff x < -T, kRight iff x > T, kUp iff y < -T, kDown iff y > T; so
\* neither kLeft and kRight nor kUp and kDown are down together.
C9_MotionDeadzone ==
  hist.last.event_code = AMOTION_EVENT_ACTION_MOVE =>
    LET b == gamepad_map[hist.last.device_id].button_list
        x == hist.last.x
        y == hist.last.y
    IN  /\ b[kLeft].is_down <=> x < -kGamepadHatThreshold
        /\ b[kRight].is_down <=> x > kGamepadHatThreshold
        /\ b[kUp].is_down <=> y < -kGamepadHatThreshold
        /\ b[kDown].is_down <=> y > kGamepadHatThreshold
        /\ ~(b[kLeft].is_down /\ b[kRight].is_down)
        /\ ~(b[kUp].is_down /\ b[kDown].is_down)

\* A motion event on the edge of the deadzone in x and beyond it in y, after
\* one that had the stick pushed right.
C9_Witness ==
  /\ hist.last.event_code = AMOTION_EVENT_ACTION_MOVE
  /\ hist.last.x = kGamepadHatThreshold
  /\ hist.last.y = -kGamepadHatThreshold - 1
  /\ ButtonListOf(hist.prev, hist.last.device_id)[kRight].is_down
  /\ ~gamepad_map[hist.last.device_id].button_list[kRight].is_down
  /\ gamepad_map[hist.last.device_id].button_list[kRight].went_up
  /\ gamepad_map[hist.last.device_id].button_list[kUp].is_down

-----------------------------------------------------------------------------
(* The Java threads, ReceiveGamepadEvent statement by statement            *)

Unchanged_by_producers ==
  UNCHANGED <<pc, button_map, pointers, joystick_map, gamepad_map, cardboard,
              assert_failed, consumer, sdl_queue, sdl_fingers, sdl_joysticks,
              text_input_events, exit_requested, mousewheel_delta, appvars>>

\* Thread t enters ReceiveGamepadEvent with the event of its arguments.
ProducerCall(t, event) ==
  /\ producers[t].pc = "idle"
  /\ producers' = [producers EXCEPT ![t] = [pc |-> "size", event |-> event]]
  /\ UNCHANGED <<unhandled, android_event_mutex>>
  /\ Unchanged_by_producers

\* if (unhandled_java_input_events_.size() < kMaxAndroidEventsPerFrame): the
\* queue is read before the mutex is taken; a full queue drops the event.
ProducerSize(t) ==
  /\ producers[t].pc = "size"
  /\ producers' = [producers EXCEPT ![t].pc =
                     IF Len(unhandled) < kMaxAndroidEventsPerFrame
                     THEN "lock" ELSE "idle"]
  /\ UNCHANGED <<unhandled, android_event_mutex>>
  /\ Unchanged_by_producers

\* pthread_mutex_lock(&android_event_mutex)
ProducerLock(t) ==
  /\ producers[t].pc = "lock"
  /\ android_event_mutex = "free"
  /\ android_event_mutex' = t
  /\ producers' = [producers EXCEPT ![t].pc = "push"]
  /\ UNCHANGED unhandled
  /\ Unchanged_by_producers

\* unhandled_java_input_events_.push(AndroidInputEvent(...))
ProducerPush(t) ==
  /\ producers[t].pc = "push"
  /\ unhandled' = Append(unhandled, producers[t].event)
  /\ producers' = [producers EXCEPT ![t].pc = "unlock"]
  /\ UNCHANGED android_event_mutex
  /\ Unchanged_by_producers

\* pthread_mutex_unlock(&android_event_mutex); return.
ProducerUnlock(t) ==
  /\ producers[t].pc = "unlock"
  /\ android_event_mutex' = "free"
  /\ producers' = [producers EXCEPT ![t].pc = "idle"]
  /\ UNCHANGED unhandled
  /\ Unchanged_by_producers

-----------------------------------------------------------------------------
(* SpecBridge: the Java threads beside the simulation thread               *)

\* The threads that are at a statement that reads or writes the queue.
AtQueueAccess ==
  {t \in Producers : producers[t].pc \in {"size", "push"}}
  \cup (IF pc = "gp_loop" THEN {"sim"} ELSE {})

\* The two events the Java threads offer in SpecBridge.
BridgeEvents ==
  {AndroidInputEvent(1, AKEY_EVENT_ACTION_DOWN, AKEYCODE_BUTTON_A, 0, 0),
   AndroidInputEvent(1, AKEY_EVENT_ACTION_UP, AKEYCODE_BUTTON_A, 0, 0)}

\* Nothing is recorded in SpecBridge.
InitBridge ==
  /\ InitProgram({})
  /\ hist = <<>>

NextBridge ==
  \/ \E t \in Producers, event \in BridgeEvents : ProducerCall(t, event) /\ UNCHANGED hist
  \/ \E t \in Producers : ProducerSize(t) /\ UNCHANGED hist
  \/ \E t \in Producers : ProducerLock(t) /\ UNCHANGED hist
  \/ \E t \in Producers : ProducerPush(t) /\ UNCHANGED hist
  \/ \E t \in Producers : ProducerUnlock(t) /\ UNCHANGED hist
  \/ FrameReset /\ UNCHANGED hist
  \/ ConsumerLock /\ UNCHANGED hist
  \/ ConsumerPop /\ UNCHANGED hist
  \/ ConsumerDecode /\ UNCHANGED hist
  \/ ConsumerClearUnlock /\ UNCHANGED hist
  \/ FrameEnd /\ UNCHANGED hist

SpecBridge == InitBridge /\ [][NextBridge]_vars

\* C5: a thread that is at a statement reading or writing the gamepad queue
\* (its size, push, front, pop, clear) holds android_event_mutex.
C5_QueueAccessLocked == \A t \in AtQueueAccess : android_event_mutex = t

C7_QueueBounded == Len(unhandled) <= kMaxAndroidEventsPerFrame

-----------------------------------------------------------------------------
(* SpecTouch: fingers on the touch device (PLATFORM_MOBILE)                *)

\* Finger ids SDL reports.
Fingers == {1, 2, 3}

\* Touch events SDL reports in a behaviour of SpecTouch.
MaxTouches == 5

\* The float 0.
kZeroF == [num |-> 0, den |-> 1]

\* SDL_TouchFingerEvent: x and y (the position, normalised to the window,
\* here the same on both axes) and dx and dy (the distance moved, normalised
\* likewise).
TouchFingerEvent(type, f, at, moved) ==
  [type |-> type, fingerId |-> f, x |-> at, y |-> at, dx |-> moved, dy |-> moved]

\* SDL_SendTouch, finger down: the finger joins SDL's list and an
\* SDL_FINGERDOWN is queued.
FingerDown(f) ==
  /\ f \notin sdl_fingers
  /\ sdl_fingers' = sdl_fingers \cup {f}
  /\ SdlPush(TouchFingerEvent("SDL_FINGERDOWN", f, kZeroF, kZeroF))

\* SDL_SendTouch, finger up: an SDL_FINGERUP is queued and the finger leaves
\* SDL's list.
FingerUp(f) ==
  /\ f \in sdl_fingers
  /\ sdl_fingers' = sdl_fingers \ {f}
  /\ SdlPush(TouchFingerEvent("SDL_FINGERUP", f, kZeroF, kZeroF))

\* SDL_SendTouchMotion: an SDL_FINGERMOTION is queued.
FingerMotion(f) ==
  /\ f \in sdl_fingers
  /\ sdl_fingers' = sdl_fingers
  /\ SdlPush(TouchFingerEvent("SDL_FINGERMOTION", f, kZeroF, kZeroF))

\* The lowest slot of a set of slots, -1 for none.
LowestOf(S) == IF S = {} THEN -1 ELSE CHOOSE i \in S : \A j \in S : i <= j

\* The pointer Button of a slot, a fresh one while the map does not hold it.
PointerButton(bm, i) == ButtonOf(bm, PointerButtonId(i))

\* The observer of the pointer table.
\*   touches: the touch events SDL has reported.
\*   down: the fingers now on the device, the earliest first.
\*   last: the touch event handled last in the running frame (NoTouch before
\*     the first), with what held before it was handled: the slot in use for
\*     its finger id (held, -1 for none), the lowest free slot (lowest, -1
\*     for none), whether the Button of the slot concerned was down, and
\*     whether SDL's finger list still held the finger (listed); freed_by and
\*     same_frame are freed and in_frame of the lowest free slot as they were
\*     before the event.
\*   freed: per slot, the finger id whose finger-up freed it while its Button
\*     was down, 0 once the slot is in use again.
\*   in_frame: whether that finger-up was in the running frame.
NoTouch == [type |-> "none", fingerId |-> 0, held |-> -1, lowest |-> -1,
            was_down |-> FALSE, listed |-> FALSE, freed_by |-> 0,
            same_frame |-> FALSE]

InitTouch ==
  /\ InitProgram({})
  /\ hist = [touches |-> 0,
             down |-> <<>>,
             last |-> NoTouch,
             freed |-> [i \in Slots |-> 0],
             in_frame |-> [i \in Slots |-> FALSE]]

ObserveTouch ==
  LET event == Head(sdl_queue)
      held == LowestOf({i \in Slots : pointers[i].used /\ pointers[i].id = event.fingerId})
      lowest == LowestOf({i \in Slots : ~pointers[i].used})
      slot == IF held # -1 THEN held ELSE lowest
      was_down == slot # -1 /\ PointerButton(button_map, slot).is_down
      freed_now == event.type = "SDL_FINGERUP" /\ held # -1 /\ was_down
  IN  hist' = [touches |-> hist.touches,
               down |-> hist.down,
               last |-> [type |-> event.type, fingerId |-> event.fingerId,
                         held |-> held, lowest |-> lowest, was_down |-> was_down,
                         listed |-> event.fingerId \in sdl_fingers,
                         freed_by |-> IF lowest = -1 THEN 0
                                      ELSE hist.freed[lowest],
                         same_frame |-> lowest # -1 /\ hist.in_frame[lowest]],
               freed |-> [i \in Slots |->
                            IF freed_now /\ i = held THEN event.fingerId
                            ELSE IF pointers'[i].used THEN 0 ELSE hist.freed[i]],
               in_frame |-> [i \in Slots |->
                               IF freed_now /\ i = held THEN TRUE
                               ELSE IF pointers'[i].used THEN FALSE ELSE hist.in_frame[i]]]

NextTouch ==
  \/ /\ hist.touches < MaxTouches
     /\ \E f \in Fingers :
          /\ FingerDown(f)
          /\ hist' = [hist EXCEPT !.touches = @ + 1, !.down = Append(@, f)]
  \/ /\ hist.touches < MaxTouches
     /\ \E f \in Fingers :
          /\ FingerUp(f)
          /\ hist' = [hist EXCEPT !.touches = @ + 1,
                                  !.down = SelectSeq(@, LAMBDA g : g # f)]
  \/ /\ hist.touches < MaxTouches
     /\ \E f \in Fingers : FingerMotion(f)
     /\ hist' = [hist EXCEPT !.touches = @ + 1]
  \/ /\ FrameBegin
     /\ hist' = [hist EXCEPT !.last = NoTouch,
                             !.in_frame = [i \in Slots |-> FALSE]]
  \/ /\ PollEvent
     /\ ObserveTouch
  \/ /\ FrameEnd
     /\ UNCHANGED hist

SpecTouch == InitTouch /\ [][NextTouch]_vars

\* C10: a finger-up for the id that occupies slot i leaves slot i unused and
\* its Button updated with false (went_up when it was down); a finger-down of
\* a different id B handled while that slot i is the lowest free slot gives
\* slot i to B and updates Button i with true; and when the finger-up was in
\* the same AdvanceFrame, Button i then has went_up, went_down and is_down.
C10_SlotReuse ==
  LET e == hist.last
  IN  /\ (e.type = "SDL_FINGERUP" /\ e.held # -1) =>
           /\ ~pointers[e.held].used
           /\ ~PointerButton(button_map, e.held).is_down
           /\ e.was_down => PointerButton(button_map, e.held).went_up
      /\ (e.type = "SDL_FINGERDOWN" /\ e.held = -1 /\ e.lowest # -1
            /\ e.freed_by \notin {0, e.fingerId}) =>
           /\ pointers[e.lowest].used /\ pointers[e.lowest].id = e.fingerId
           /\ PointerButton(button_map, e.lowest).is_down
           /\ PointerButton(button_map, e.lowest).went_down
           /\ e.same_frame => PointerButton(button_map, e.lowest).went_up

\* All touch events SDL reported have been handled and no frame is running.
TouchQuiet == pc = "idle" /\ sdl_queue = <<>>

\* C11: whenever at least one finger is down (and its events are handled),
\* pointer slot 0 is in use and holds the id of the finger that went down
\* earliest among the fingers now down.
C11_SlotZeroPrimary ==
  (TouchQuiet /\ hist.down # <<>>) =>
     pointers[0].used /\ pointers[0].id = Head(hist.down)

-----------------------------------------------------------------------------
(* SpecJoystick: joysticks plugged, used and unplugged                     *)

\* Instance ids SDL gives to joysticks.
JoystickIds == {1, 2}

\* Joystick events SDL reports in a behaviour of SpecJoystick.
MaxJoystickEvents == 3

\* SDL queues an event and lists the joysticks `connected` from now on.
SdlJoystickPush(event, connected) ==
  /\ Len(sdl_queue) < MaxPending
  /\ sdl_queue' = Append(sdl_queue, event)
  /\ sdl_joysticks' = connected
  /\ UNCHANGED <<text_input_events, exit_requested, mousewheel_delta, appvars>>
  /\ UNCHANGED <<pc, button_map, pointers, joystick_map, gamepad_map, cardboard,
                 assert_failed, unhandled, android_event_mutex, consumer,
                 producers, sdl_fingers>>

\* A joystick is plugged in.
JoyDeviceAdded(id) ==
  /\ id \notin sdl_joysticks
  /\ SdlJoystickPush([type |-> "SDL_JOYDEVICEADDED", which |-> id],
                     sdl_joysticks \cup {id})

\* A joystick is unplugged.
JoyDeviceRemoved(id) ==
  /\ id \in sdl_joysticks
  /\ SdlJoystickPush([type |-> "SDL_JOYDEVICEREMOVED", which |-> id],
                     sdl_joysticks \ {id})

\* An axis of a plugged joystick moves; value is the raw Sint16.
JoyAxisEvent(which, axis, value) ==
  /\ which \in sdl_joysticks
  /\ SdlJoystickPush([type |-> "SDL_JOYAXISMOTION", which |-> which,
                      axis |-> axis, value |-> value], sdl_joysticks)

\* A hat of a plugged joystick moves.
JoyHatEvent(which, hat, value) ==
  /\ which \in sdl_joysticks
  /\ SdlJoystickPush([type |-> "SDL_JOYHATMOTION", which |-> which,
                      hat |-> hat, value |-> value], sdl_joysticks)

\* Raw axis values: the ends of the Sint16 range and rest.
AxisValues == {-32768, 0, 32767}

HatValues == {"SDL_HAT_LEFTUP"}

\* The step is one iteration of the SDL_PollEvent loop on an event of one of
\* the types.
Polls(types) ==
  /\ pc = "poll"
  /\ sdl_queue # <<>>
  /\ sdl_queue' = Tail(sdl_queue)
  /\ Head(sdl_queue).type \in types

DeviceEvents == {"SDL_JOYDEVICEADDED", "SDL_JOYDEVICEREMOVED"}

ControlEvents == {"SDL_JOYAXISMOTION", "SDL_JOYBUTTONDOWN", "SDL_JOYBUTTONUP",
                  "SDL_JOYHATMOTION"}

\* The button, axis and hat lists of a Joystick.
ListsOf(j) == <<j.button_list, j.axis_list, j.hat_list>>

\* The observer.  events: the joystick events SDL has reported.  kept: the
\* ids of the Joysticks that an enumeration left without handle while they
\* held controls.  last: the event handled last in the running frame.
InitJoystick ==
  /\ InitProgram({1})
  /\ hist = [events |-> 0, kept |-> {}, last |-> [type |-> "none", which |-> 0]]

ObserveJoystick ==
  LET event == Head(sdl_queue)
  IN  hist' = [events |-> hist.events,
               kept |-> IF event.type \in DeviceEvents
                        THEN hist.kept \cup
                             {id \in DOMAIN joystick_map' :
                                /\ joystick_map'[id].joystick_data = 0
                                /\ ListsOf(joystick_map'[id]) # <<<<>>, <<>>, <<>>>>}
                        ELSE hist.kept,
               last |-> [type |-> event.type, which |-> event.which]]

Reported == hist' = [hist EXCEPT !.events = @ + 1]

NextJoystick ==
  \/ /\ hist.events < MaxJoystickEvents
     /\ \E id \in JoystickIds : JoyDeviceAdded(id)
     /\ Reported
  \/ /\ hist.events < MaxJoystickEvents
     /\ \E id \in JoystickIds : JoyDeviceRemoved(id)
     /\ Reported
  \/ /\ hist.events < MaxJoystickEvents
     /\ \E id \in JoystickIds, pressed \in BOOLEAN :
          /\ id \in sdl_joysticks
          /\ JoyButtonEvent(id, 0, pressed)
     /\ Reported
  \/ /\ hist.events < MaxJoystickEvents
     /\ \E id \in JoystickIds, value \in AxisValues : JoyAxisEvent(id, 0, value)
     /\ Reported
  \/ /\ hist.events < MaxJoystickEvents
     /\ \E id \in JoystickIds, value \in HatValues : JoyHatEvent(id, 0, value)
     /\ Reported
  \/ /\ FrameBegin
     /\ hist' = [hist EXCEPT !.last = [type |-> "none", which |-> 0]]
  \/ /\ PollEvent
     /\ ObserveJoystick
  \/ /\ FrameEnd
     /\ UNCHANGED hist

SpecJoystick == InitJoystick /\ [][NextJoystick]_vars

\* C12: the set of registered instance ids never shrinks; after each
\* re-enumeration a registered Joystick has a handle iff SDL lists its device
\* (none after removal); and the re-enumeration leaves the button, axis and
\* hat lists of every Joystick already registered as they were, a re-added
\* one included.
C12_RegistryPersists ==
  [][/\ DOMAIN joystick_map \subseteq DOMAIN joystick_map'
     /\ Polls(DeviceEvents) =>
          /\ \A id \in DOMAIN joystick_map' :
               joystick_map'[id].joystick_data # 0 <=> id \in sdl_joysticks
          /\ \A id \in DOMAIN joystick_map :
               ListsOf(joystick_map'[id]) = ListsOf(joystick_map[id])]_vars

\* A Joystick that lost its handle while it held controls has a handle again
\* and still holds controls.
C12_Witness ==
  \E id \in hist.kept :
    /\ joystick_map[id].joystick_data # 0
    /\ joystick_map[id].button_list # <<>>
    /\ hist.last.type = "SDL_JOYDEVICEADDED"

\* C13: registry entries are created only by enumeration (a device-added or
\* device-removed event, after Initialize); an axis, button or hat event for
\* an instance id that is not registered reaches GetJoystick's assertion and
\* leaves the registry as it was.
C13_NoAutoCreate ==
  [][/\ DOMAIN joystick_map' # DOMAIN joystick_map => Polls(DeviceEvents)
     /\ (Polls(ControlEvents) /\ Head(sdl_queue).which \notin DOMAIN joystick_map) =>
          assert_failed' /\ joystick_map' = joystick_map]_vars

\* A button event of an instance id with no registry entry has been handled.
C13_Witness ==
  /\ assert_failed
  /\ hist.last.type \in ControlEvents
  /\ hist.last.which \notin DOMAIN joystick_map

\* C18: every Axis value, the raw Sint16 divided by kJoystickAxisRange, lies
\* in [-1, 1].
C18_AxisNormalized ==
  \A id \in DOMAIN joystick_map :
    \A i \in DOMAIN joystick_map[id].axis_list :
      LET value == joystick_map[id].axis_list[i]
      IN  -value.den <= value.num /\ value.num <= value.den

-----------------------------------------------------------------------------
(* SpecText: the text-input event log                                      *)

\* Key and text events SDL reports in a behaviour of SpecText.
MaxTextEvents == 3

\* SDL_TEXTEDITING: the composition text changes.
TextEditingEvent(text) ==
  /\ SdlPush([type |-> "SDL_TEXTEDITING", text |-> text])
  /\ UNCHANGED sdl_fingers

\* SDL_TEXTINPUT: text is committed.
TextInputEvent(text) ==
  /\ SdlPush([type |-> "SDL_TEXTINPUT", text |-> text])
  /\ UNCHANGED sdl_fingers

\* InputSystem::RecordTextInput(b), called by the application between two
\* frames: recording is switched on or off.
RecordTextInput(b) ==
  /\ pc = "idle"
  /\ record_text_input' = b
  /\ UNCHANGED <<pc, button_map, pointers, joystick_map, gamepad_map, cardboard,
                 assert_failed, unhandled, android_event_mutex, consumer,
                 producers, sdl_queue, sdl_fingers, sdl_joysticks,
                 text_input_events, exit_requested, app_event_callbacks,
                 minimized, mousewheel_delta>>

\* The log entry an event stands for.
EntryOf(event) ==
  CASE event.type \in {"SDL_KEYDOWN", "SDL_KEYUP"} ->
         [type |-> "kTextInputEventTypeKey", state |-> event.state,
          symbol |-> event.sym]
    [] event.type = "SDL_TEXTEDITING" ->
         [type |-> "kTextInputEventTypeEdit", text |-> event.text]
    [] event.type = "SDL_TEXTINPUT" ->
         [type |-> "kTextInputEventTypeText", text |-> event.text]

\* The observer.  events: the events SDL has reported.  recording and
\* before: the recording switch and the log when the last AdvanceFrame was
\* entered.  drained: the entries of the events that call has drained, in
\* arrival order.  done: that call has returned and the application has not
\* touched the switch since.
InitText ==
  /\ InitProgram({})
  /\ hist = [events |-> 0, recording |-> FALSE, before |-> <<>>,
             drained |-> <<>>, done |-> FALSE]

TextReported == hist' = [hist EXCEPT !.events = @ + 1]

NextText ==
  \/ /\ hist.events < MaxTextEvents
     /\ \E pressed \in BOOLEAN : KeyEvent(1, pressed)
     /\ TextReported
  \/ /\ hist.events < MaxTextEvents
     /\ TextEditingEvent("a")
     /\ TextReported
  \/ /\ hist.events < MaxTextEvents
     /\ TextInputEvent("a")
     /\ TextReported
  \/ /\ \E b \in BOOLEAN : RecordTextInput(b)
     /\ hist' = [hist EXCEPT !.done = FALSE]
  \/ /\ FrameBegin
     /\ hist' = [hist EXCEPT !.recording = record_text_input,
                             !.before = text_input_events,
                             !.drained = <<>>, !.done = FALSE]
  \/ /\ PollEvent
     /\ hist' = [hist EXCEPT !.drained = Append(@, EntryOf(Head(sdl_queue)))]
  \/ /\ FrameEnd
     /\ hist' = [hist EXCEPT !.done = TRUE]

SpecText == InitText /\ [][NextText]_vars

\* C14: after AdvanceFrame the log is empty when recording is off, whatever
\* was drained; when recording is on it is the log before the call followed
\* by one entry per key, text-editing and text-input event drained in the
\* call, in arrival order.
C14_TextLog ==
  hist.done =>
    text_input_events = IF hist.recording THEN hist.before \o hist.drained
                        ELSE <<>>

\* A recorded log has persisted over an AdvanceFrame that appended to it.
C14_Witness ==
  /\ hist.done /\ hist.recording
  /\ hist.before # <<>> /\ hist.drained # <<>>
  /\ text_input_events = hist.before \o hist.drained

-----------------------------------------------------------------------------
(* SpecQuit: the exit request among the other events                       *)

\* Events reported in a behaviour of SpecQuit.
MaxQuitEvents == 3

\* SDL_QUIT: the user asks the application to close.
QuitEvent ==
  /\ SdlPush([type |-> "SDL_QUIT"])
  /\ UNCHANGED sdl_fingers

\* The observer.  events: the events reported.  quits: whether an SDL_QUIT
\* has been handled.  later: what has run since the first handled SDL_QUIT,
\* a set of event types and of "frame" for an entry of AdvanceFrame and
\* "gamepad" for a call of ReceiveGamepadEvent.
InitQuit ==
  /\ InitProgram({1})
  /\ hist = [events |-> 0, quits |-> FALSE, later |-> {}]

QuitReported == hist' = [hist EXCEPT !.events = @ + 1]

Later(what) == IF hist.quits THEN hist.later \cup {what} ELSE hist.later

NextQuit ==
  \/ /\ hist.events < MaxQuitEvents
     /\ QuitEvent
     /\ QuitReported
  \/ /\ hist.events < MaxQuitEvents
     /\ KeyEvent(1, TRUE)
     /\ QuitReported
  \/ /\ hist.events < MaxQuitEvents
     /\ TextInputEvent("a")
     /\ QuitReported
  \/ /\ hist.events < MaxQuitEvents
     /\ MouseButtonEvent(1, TRUE)
     /\ QuitReported
  \/ /\ hist.events < MaxQuitEvents
     /\ FingerDown(1)
     /\ QuitReported
  \/ /\ hist.events < MaxQuitEvents
     /\ JoyButtonEvent(1, 0, TRUE)
     /\ QuitReported
  \/ /\ hist.events < MaxQuitEvents
     /\ SdlJoystickPush([type |-> "SDL_JOYDEVICEREMOVED", which |-> 1], {})
     /\ QuitReported
  \/ /\ hist.events < MaxQuitEvents
     /\ ReceiveGamepadEvent(AndroidInputEvent(1, AKEY_EVENT_ACTION_DOWN, AKEYCODE_BUTTON_A, 0, 0))
     /\ hist' = [hist EXCEPT !.events = @ + 1, !.later = Later("gamepad")]
  \/ /\ FrameBegin
     /\ hist' = [hist EXCEPT !.later = Later("frame")]
  \/ /\ PollEvent
     /\ hist' = [hist EXCEPT !.quits = @ \/ Head(sdl_queue).type = "SDL_QUIT",
                             !.later = Later(Head(sdl_queue).type)]
  \/ /\ FrameEnd
     /\ UNCHANGED hist

SpecQuit == InitQuit /\ [][NextQuit]_vars

\* C15: exit_requested becomes true only by the handling of an SDL_QUIT, and
\* no step makes it false again.
C15_ExitSticky ==
  [][/\ exit_requested => exit_requested'
     /\ (~exit_requested /\ exit_requested') => Polls({"SDL_QUIT"})]_vars

\* The exit request is still set after a later AdvanceFrame has handled
\* another event.
C15_Witness ==
  /\ exit_requested
  /\ "frame" \in hist.later
  /\ hist.later \ {"frame"} # {}

-----------------------------------------------------------------------------
(* The SDL event filter: HandleAppEvents                                   *)
(* Frame timing (frames_, minimized_frame_, the tick counts) is not part   *)
(* of the model.                                                           *)

\* The event types the switch of HandleAppEvents names.
AppEventTypes == {"SDL_APP_TERMINATING", "SDL_APP_LOWMEMORY",
                  "SDL_APP_WILLENTERBACKGROUND", "SDL_APP_DIDENTERBACKGROUND",
                  "SDL_APP_WILLENTERFOREGROUND", "SDL_APP_DIDENTERFOREGROUND"}

\* A filter that calls the callbacks last registered first.
HandleAppEventsReversed(input_system, event) ==
  LET passthrough == IF event.type \in AppEventTypes THEN 0 ELSE 1
      n == Len(input_system.app_event_callbacks)
  IN  [minimized |->
         CASE event.type = "SDL_APP_WILLENTERBACKGROUND" -> TRUE
           [] event.type = "SDL_APP_DIDENTERFOREGROUND" -> FALSE
           [] OTHER -> input_system.minimized,
       invoked |->
         IF passthrough = 0 /\ event.type # "SDL_APP_TERMINATING"
         THEN [i \in 1 .. n |-> input_system.app_event_callbacks[n + 1 - i]]
         ELSE <<>>,
       passthrough |-> passthrough]

\* A filter that calls the callbacks for SDL_APP_TERMINATING as well.
HandleAppEventsAll(input_system, event) ==
  LET passthrough == IF event.type \in AppEventTypes THEN 0 ELSE 1
  IN  [minimized |->
         CASE event.type = "SDL_APP_WILLENTERBACKGROUND" -> TRUE
           [] event.type = "SDL_APP_DIDENTERFOREGROUND" -> FALSE
           [] OTHER -> input_system.minimized,
       invoked |->
         IF passthrough = 0 THEN input_system.app_event_callbacks ELSE <<>>,
       passthrough |-> passthrough]

\* HandleAppEvents(userdata, event): the new minimized flag, the callbacks
\* called, in call order, and the value returned to SDL (1: the event goes
\* on to the queue, 0: it is dropped).
HandleAppEvents(input_system, event) ==
  LET passthrough == IF event.type \in AppEventTypes THEN 0 ELSE 1
  IN  [minimized |->
         CASE event.type = "SDL_APP_WILLENTERBACKGROUND" -> TRUE
           [] event.type = "SDL_APP_DIDENTERFOREGROUND" -> FALSE
           [] OTHER -> input_system.minimized,
       invoked |->
         IF passthrough = 0 /\ event.type # "SDL_APP_TERMINATING"
         THEN input_system.app_event_callbacks
         ELSE <<>>,
       passthrough |-> passthrough]

\* SDL hands an event to the filter set by Initialize before it queues it.
SdlFilterEvent(event) ==
  LET r == HandleAppEvents([minimized |-> minimized,
                            app_event_callbacks |-> app_event_callbacks], event)
  IN  /\ r.passthrough = 1 => Len(sdl_queue) < MaxPending
      /\ minimized' = r.minimized
      /\ sdl_queue' = IF r.passthrough = 1 THEN Append(sdl_queue, event)
                      ELSE sdl_queue
      /\ UNCHANGED <<pc, button_map, pointers, joystick_map, gamepad_map,
                     cardboard, assert_failed, unhandled, android_event_mutex,
                     consumer, producers, sdl_fingers, sdl_joysticks,
                     text_input_events, record_text_input, exit_requested,
                     app_event_callbacks, mousewheel_delta>>

\* Callbacks the application may register.
MaxCallbacks == 2

\* InputSystem::AddAppEventCallback(callback)
AddAppEventCallback(callback) ==
  /\ Len(app_event_callbacks) < MaxCallbacks
  /\ app_event_callbacks' = Append(app_event_callbacks, callback)
  /\ UNCHANGED <<pc, button_map, pointers, joystick_map, gamepad_map,
                 cardboard, assert_failed, unhandled, android_event_mutex,
                 consumer, producers, sdl_queue, sdl_fingers, sdl_joysticks,
                 text_input_events, record_text_input, exit_requested,
                 minimized, mousewheel_delta>>

-----------------------------------------------------------------------------
(* SpecApp: lifecycle events and the registered callbacks                  *)

\* Events SDL hands to the filter in a behaviour of SpecApp.
MaxAppEvents == 3

Callbacks == {"f", "g"}

\* Events that are no lifecycle events.
OtherEvents == {[type |-> "SDL_QUIT"],
                [type |-> "SDL_KEYDOWN", sym |-> 1, state |-> "SDL_PRESSED"]}

\* The observer.  events: the events handed to the filter.  last: the last
\* of them, with the callbacks registered when it came, the callbacks called
\* for it in call order, and whether it went on to the queue.
InitApp ==
  /\ InitProgram({})
  /\ hist = [events |-> 0,
             last |-> [type |-> "none", callbacks |-> <<>>, invoked |-> <<>>,
                       queued |-> FALSE]]

ObserveFilter(event) ==
  hist' = [events |-> hist.events + 1,
           last |-> [type |-> event.type,
                     callbacks |-> app_event_callbacks,
                     invoked |-> HandleAppEvents(
                                   [minimized |-> minimized,
                                    app_event_callbacks |-> app_event_callbacks],
                                   event).invoked,
                     queued |-> sdl_queue' = Append(sdl_queue, event)]]

NextApp ==
  \/ /\ \E callback \in Callbacks : AddAppEventCallback(callback)
     /\ UNCHANGED hist
  \/ /\ hist.events < MaxAppEvents
     /\ \E type \in AppEventTypes :
          /\ SdlFilterEvent([type |-> type])
          /\ ObserveFilter([type |-> type])
  \/ /\ hist.events < MaxAppEvents
     /\ \E event \in OtherEvents :
          /\ SdlFilterEvent(event)
          /\ ObserveFilter(event)
  \/ /\ FrameBegin
     /\ UNCHANGED hist
  \/ /\ PollEvent
     /\ UNCHANGED hist
  \/ /\ FrameEnd
     /\ UNCHANGED hist

SpecApp == InitApp /\ [][NextApp]_vars

\* C16: a lifecycle event that is dispatched to the callbacks (every one
\* but SDL_APP_TERMINATING) calls each registered callback once, in
\* registration order, inside the filter, and is not queued; an event that
\* is no lifecycle event calls no callback and goes on to the poll queue.
C16_CallbacksInOrder ==
  LET e == hist.last
  IN  /\ e.type \in AppEventTypes \ {"SDL_APP_TERMINATING"} =>
           e.invoked = e.callbacks /\ ~e.queued
      /\ e.type \notin AppEventTypes \cup {"none"} =>
           e.invoked = <<>> /\ e.queued

\* Two different callbacks have been called for a lifecycle event.
C16_Witness ==
  /\ hist.last.type \in AppEventTypes
  /\ Len(hist.last.invoked) = 2
  /\ hist.last.invoked[1] # hist.last.invoked[2]

\* C17 as stated: the registered callbacks are called for the foreground
\* events, for the background events and for SDL_APP_TERMINATING.
C17_AllLifecycleKinds ==
  hist.last.type \in {"SDL_APP_WILLENTERFOREGROUND", "SDL_APP_DIDENTERFOREGROUND",
                      "SDL_APP_WILLENTERBACKGROUND", "SDL_APP_DIDENTERBACKGROUND",
                      "SDL_APP_TERMINATING"} =>
    hist.last.invoked = hist.last.callbacks

\* C17 amended: the registered callbacks are called for the foreground, the
\* background and the low-memory events; for SDL_APP_TERMINATING no callback
\* is called, and the event is not queued either.
C17_AllButTerminating ==
  hist.last.type \in AppEventTypes =>
    /\ hist.last.invoked = IF hist.last.type = "SDL_APP_TERMINATING" THEN <<>>
                           ELSE hist.last.callbacks
    /\ ~hist.last.queued

\* SDL_APP_TERMINATING came while callbacks were registered.
C17_Witness ==
  /\ hist.last.type = "SDL_APP_TERMINATING"
  /\ hist.last.callbacks # <<>>
  /\ hist.last.invoked = <<>>

-----------------------------------------------------------------------------
(* SpecDrain: what becomes of the events the Java threads enqueue          *)

\* The observer: the events pushed and not yet interpreted, in push order.
InitDrain ==
  /\ InitProgram({})
  /\ hist = [pending |-> <<>>]

NextDrain ==
  \/ \E t \in Producers, event \in BridgeEvents : ProducerCall(t, event) /\ UNCHANGED hist
  \/ \E t \in Producers : ProducerSize(t) /\ UNCHANGED hist
  \/ \E t \in Producers : ProducerLock(t) /\ UNCHANGED hist
  \/ \E t \in Producers :
       /\ ProducerPush(t)
       /\ hist' = [pending |-> Append(hist.pending, producers[t].event)]
  \/ \E t \in Producers : ProducerUnlock(t) /\ UNCHANGED hist
  \/ FrameReset /\ UNCHANGED hist
  \/ ConsumerLock /\ UNCHANGED hist
  \/ ConsumerPop /\ UNCHANGED hist
  \/ /\ ConsumerDecode
     /\ hist' = [pending |-> IF hist.pending = <<>> THEN <<>> ELSE Tail(hist.pending)]
  \/ ConsumerClearUnlock /\ UNCHANGED hist
  \/ FrameEnd /\ UNCHANGED hist

SpecDrain == InitDrain /\ [][NextDrain]_vars

\* C19: the events pushed and not yet applied are, in push order, the event
\* the drain has in hand followed by the queue, so none is lost, applied
\* twice or out of order; the event a drain applies is the oldest of them;
\* and when the drain releases the lock every event pushed before it took
\* the lock has been applied and the queue is empty.
C19_EnqueuedAppliedOnce ==
  /\ [](hist.pending = (IF pc = "gp_decode" THEN <<consumer.event>> ELSE <<>>)
                         \o unhandled)
  /\ [][/\ (pc = "gp_decode" /\ pc' = "gp_loop") =>
             /\ hist.pending # <<>>
             /\ gamepad_map' = HandleGamepadEvent(gamepad_map, Head(hist.pending))
        /\ (pc = "gp_loop" /\ pc' = "poll") =>
             hist'.pending = <<>> /\ unhandled' = <<>>]_vars

\* A drain applies the first of two different events pushed ahead of it.
C19_Witness ==
  /\ pc = "gp_decode"
  /\ Len(hist.pending) >= 2
  /\ hist.pending[1] # hist.pending[2]

-----------------------------------------------------------------------------
(* SpecReset: the per-frame flags of every Control                         *)

\* Events reported in a behaviour of SpecReset.
MaxResetEvents == 3

\* The places of the Buttons of a set of controls.
Places(c) ==
  {<<"button_map", k, 0>> : k \in DOMAIN c.button_map}
  \cup UNION {{<<"joystick_map", id, i>> : i \in DOMAIN c.joystick_map[id].button_list}
                : id \in DOMAIN c.joystick_map}
  \cup UNION {{<<"gamepad_map", id, i>> : i \in DOMAIN c.gamepad_map[id].button_list}
                : id \in DOMAIN c.gamepad_map}

ButtonAt(c, place) ==
  CASE place[1] = "button_map" -> c.button_map[place[2]]
    [] place[1] = "joystick_map" -> c.joystick_map[place[2]].button_list[place[3]]
    [] place[1] = "gamepad_map" -> c.gamepad_map[place[2]].button_list[place[3]]

\* The Button at a place is down (a Button that does not exist yet is up).
DownAt(c, place) == place \in Places(c) /\ ButtonAt(c, place).is_down

\* The gamepad events of SpecReset: a key down, a key up, a stick to the right.
ResetGamepadEvents ==
  {AndroidInputEvent(1, AKEY_EVENT_ACTION_DOWN, AKEYCODE_BUTTON_A, 0, 0),
   AndroidInputEvent(1, AKEY_EVENT_ACTION_UP, AKEYCODE_BUTTON_A, 0, 0),
   AndroidInputEvent(1, AMOTION_EVENT_ACTION_MOVE, 0, 10, 0)}

\* The observer.  events: the events reported.  went_down, went_up: the
\* places whose Button changed its level to down, to up, in a step of the
\* running (or last) AdvanceFrame.  earlier: the places that went down in
\* the AdvanceFrame before it.
InitReset ==
  /\ InitProgram({1})
  /\ hist = [events |-> 0, went_down |-> {}, went_up |-> {}, earlier |-> {}]

ResetReported == hist' = [hist EXCEPT !.events = @ + 1]

ObserveLevels ==
  hist' = [hist EXCEPT
             !.went_down = @ \cup {p \in Places(Controls') :
                                     DownAt(Controls', p) /\ ~DownAt(Controls, p)},
             !.went_up = @ \cup {p \in Places(Controls) :
                                   DownAt(Controls, p) /\ ~DownAt(Controls', p)}]

NextReset ==
  \/ /\ hist.events < MaxResetEvents
     /\ \E pressed \in BOOLEAN : KeyEvent(1, pressed)
     /\ ResetReported
  \/ /\ hist.events < MaxResetEvents
     /\ \E pressed \in BOOLEAN : MouseButtonEvent(1, pressed)
     /\ ResetReported
  \/ /\ hist.events < MaxResetEvents
     /\ \E pressed \in BOOLEAN : JoyButtonEvent(1, 0, pressed)
     /\ ResetReported
  \/ /\ hist.events < MaxResetEvents
     /\ \E event \in ResetGamepadEvents : ReceiveGamepadEvent(event)
     /\ ResetReported
  \/ /\ FrameReset
     /\ hist' = [hist EXCEPT !.went_down = {}, !.went_up = {},
                             !.earlier = hist.went_down]
  \/ /\ ConsumerLock
     /\ UNCHANGED hist
  \/ /\ ConsumerPop
     /\ UNCHANGED hist
  \/ /\ ConsumerDecode
     /\ ObserveLevels
  \/ /\ ConsumerClearUnlock
     /\ UNCHANGED hist
  \/ /\ PollEvent
     /\ ObserveLevels
  \/ /\ FrameEnd
     /\ UNCHANGED hist

SpecReset == InitReset /\ [][NextReset]_vars

\* C20: the went_down and went_up of every Control (button map, joystick
\* buttons, gamepad buttons) are exactly the level changes that the events
\* consumed in the running (or last) AdvanceFrame caused, during the call
\* and when it has returned: the one reset comes before the gamepad drain and
\* the platform event drain, and nothing of an earlier frame is left.
C20_FlagsOfThisFrame ==
  \A p \in Places(Controls) :
    /\ ButtonAt(Controls, p).went_down <=> p \in hist.went_down
    /\ ButtonAt(Controls, p).went_up <=> p \in hist.went_up

\* An AdvanceFrame has returned in which a Control that went down in the
\* frame before went up and did not go down.
C20_Witness ==
  /\ pc = "idle"
  /\ \E p \in hist.earlier : p \in hist.went_up /\ p \notin hist.went_down

-----------------------------------------------------------------------------
(* SpecMouse: the mouse wheel and the pointer deltas of a frame            *)

\* Mouse and touch events SDL reports in a behaviour of SpecMouse.
MaxMouseEvents == 5

\* SDL_SendMouseMotion: an SDL_MOUSEMOTION is queued.
MouseMotionEvent(at, rel) ==
  /\ SdlPush([type |-> "SDL_MOUSEMOTION", x |-> at[1], y |-> at[2],
              xrel |-> rel[1], yrel |-> rel[2]])
  /\ UNCHANGED sdl_fingers

\* SDL_SendMouseWheel: an SDL_MOUSEWHEEL is queued.
MouseWheelEvent(by) ==
  /\ SdlPush([type |-> "SDL_MOUSEWHEEL", x |-> by[1], y |-> by[2]])
  /\ UNCHANGED sdl_fingers

\* SDL_SendTouchMotion of a finger that moved.
FingerDrag(f, at, moved) ==
  /\ f \in sdl_fingers
  /\ sdl_fingers' = sdl_fingers
  /\ SdlPush(TouchFingerEvent("SDL_FINGERMOTION", f, at, moved))

MousePositions == {<<3, 1>>}
MouseRels == {<<-2, 1>>}
WheelSteps == {<<1, -1>>}
FingerPositions == {[num |-> 1, den |-> 2]}
FingerMoves == {[num |-> -3, den |-> 4]}

\* The observer of a frame.
\*   events: the events SDL has reported.
\*   wheel, motion: the sums of the wheel steps and of the relative mouse
\*     motions the running AdvanceFrame has drained.
\*   touch: the sum of the scaled distances of the finger-down and
\*     finger-motion events it has drained whose finger SDL still listed and
\*     whose slot was slot 0: the slot in use for the finger id, else the
\*     lowest free slot, else (no slot free) slot 0 again.
\*   earlier: whether a frame before the running one left a wheel delta or a
\*     delta of pointer 0 other than zero.
\*   drained: whether the running frame has, kept until the next frame starts.
\*   kept: whether every per-frame reset so far left the position, the used
\*     flag and the id of every pointer as they were.
InitMouse ==
  /\ InitProgram({})
  /\ hist = [events |-> 0, wheel |-> kZeros2i, motion |-> kZeros2i,
             touch |-> kZeros2i, earlier |-> FALSE,
             drained |-> [wheel |-> 0, motion |-> 0, touch |-> 0],
             kept |-> TRUE]

MouseReported == hist' = [hist EXCEPT !.events = @ + 1]

ObserveFrameStart ==
  hist' = [hist EXCEPT !.wheel = kZeros2i, !.motion = kZeros2i,
                       !.touch = kZeros2i,
                       !.earlier = @ \/ mousewheel_delta # kZeros2i
                                     \/ pointers[0].mousedelta # kZeros2i,
                       !.drained = [wheel |-> 0, motion |-> 0, touch |-> 0],
                       !.kept = @ /\ \A i \in Slots :
                                       /\ pointers'[i].mousepos = pointers[i].mousepos
                                       /\ pointers'[i].used = pointers[i].used
                                       /\ pointers'[i].id = pointers[i].id]

ObserveDrained ==
  LET e == Head(sdl_queue)
      held == LowestOf({i \in Slots : pointers[i].used /\ pointers[i].id = e.fingerId})
      lowest == LowestOf({i \in Slots : ~pointers[i].used})
      wrote0 == /\ e.type \in {"SDL_FINGERDOWN", "SDL_FINGERMOTION"}
                /\ e.fingerId \in sdl_fingers
                /\ \/ held = 0
                   \/ held = -1 /\ lowest = 0
                   \/ held = -1 /\ lowest = -1
  IN  hist' =
        CASE e.type = "SDL_MOUSEWHEEL" ->
               [hist EXCEPT !.wheel = <<@[1] + e.x, @[2] + e.y>>,
                            !.drained.wheel = 1]
          [] e.type = "SDL_MOUSEMOTION" ->
               [hist EXCEPT !.motion = <<@[1] + e.xrel, @[2] + e.yrel>>,
                            !.drained.motion = 1]
          [] wrote0 ->
               [hist EXCEPT !.touch = Vec2iAdd(@, ScaleToVec2i(e.dx, e.dy, window_size)),
                            !.drained.touch = 1]
          [] OTHER -> hist

NextMouse ==
  \/ /\ hist.events < MaxMouseEvents
     /\ \E at \in MousePositions, rel \in MouseRels : MouseMotionEvent(at, rel)
     /\ MouseReported
  \/ /\ hist.events < MaxMouseEvents
     /\ \E by \in WheelSteps : MouseWheelEvent(by)
     /\ MouseReported
  \/ /\ hist.events < MaxMouseEvents
     /\ MouseButtonEvent(1, TRUE)
     /\ MouseReported
  \/ /\ hist.events < MaxMouseEvents
     /\ FingerDown(1)
     /\ MouseReported
  \/ /\ hist.events < MaxMouseEvents
     /\ \E at \in FingerPositions, moved \in FingerMoves :
          FingerDrag(1, at, moved)
     /\ MouseReported
  \/ /\ hist.events < MaxMouseEvents
     /\ FingerUp(1)
     /\ MouseReported
  \/ FrameBegin /\ ObserveFrameStart
  \/ PollEvent /\ ObserveDrained
  \/ FrameEnd /\ UNCHANGED hist

SpecMouse == InitMouse /\ [][NextMouse]_vars

\* C21, as stated: after AdvanceFrame returns, the mouse-wheel delta is the
\* sum of the wheel events drained in that call and the delta of pointer 0 is
\* the sum of the relative mouse motions drained in that call, whatever the
\* frames before it drained; the per-frame reset leaves pointer positions and
\* used flags alone.
C21_MouseDeltas ==
  /\ pc = "idle" => /\ mousewheel_delta = hist.wheel
                    /\ pointers[0].mousedelta = hist.motion
  /\ hist.kept

\* C21, amended: the delta of pointer 0 is the sum of the relative mouse
\* motions plus the scaled distances of the finger-down and finger-motion
\* events that the call resolved to slot 0; the rest as stated.
C21_MouseAndTouchDeltas ==
  /\ pc = "idle" => /\ mousewheel_delta = hist.wheel
                    /\ pointers[0].mousedelta = Vec2iAdd(hist.motion, hist.touch)
  /\ hist.kept

\* A frame that drained wheel steps, mouse motions and a drag of the finger
\* in slot 0 has returned, after an earlier frame that left a delta other
\* than zero.
C21_Witness ==
  /\ pc = "idle"
  /\ hist.earlier
  /\ hist.drained.wheel > 0 /\ hist.drained.motion > 0 /\ hist.drained.touch > 0
  /\ mousewheel_delta # kZeros2i
  /\ hist.touch # kZeros2i
  /\ pointers[0].used

-----------------------------------------------------------------------------
(* SpecSlots: more fingers than pointer slots                              *)

\* Touch events SDL reports in a behaviour of SpecSlots.
MaxFingerEvents == 5

\* The observer of FindPointer.
\*   touches: the touch events SDL has reported.
\*   most: the largest number of fingers that were down at once.
\*   last: the touch event handled last (NoCall before the first), with what
\*     held before it was handled: whether the handler called FindPointer
\*     (finger-up always, finger-down and finger-motion when SDL's list still
\*     held the finger), whether a slot in use held the finger id (held),
\*     whether every slot was in use (full) and whether an assertion had
\*     failed before (failed).
NoCall == [type |-> "none", fingerId |-> 0, called |-> FALSE, held |-> FALSE,
           full |-> FALSE, failed |-> FALSE]

InitSlots ==
  /\ InitProgram({})
  /\ hist = [touches |-> 0, most |-> 0, last |-> NoCall]

SlotsReported ==
  hist' = [hist EXCEPT !.touches = @ + 1,
                       !.most = IF Cardinality(sdl_fingers') > @
                                THEN Cardinality(sdl_fingers') ELSE @]

ObserveFindPointer ==
  LET e == Head(sdl_queue)
  IN  hist' = [hist EXCEPT !.last =
        [type |-> e.type, fingerId |-> e.fingerId,
         called |-> e.type = "SDL_FINGERUP" \/ e.fingerId \in sdl_fingers,
         held |-> \E i \in Slots : pointers[i].used /\ pointers[i].id = e.fingerId,
         full |-> \A i \in Slots : pointers[i].used,
         failed |-> assert_failed]]

NextSlots ==
  \/ /\ hist.touches < MaxFingerEvents
     /\ \E f \in Fingers : FingerDown(f)
     /\ SlotsReported
  \/ /\ hist.touches < MaxFingerEvents
     /\ \E f \in Fingers : FingerMotion(f)
     /\ SlotsReported
  \/ /\ hist.touches < MaxFingerEvents
     /\ \E f \in Fingers : FingerUp(f)
     /\ SlotsReported
  \/ FrameBegin /\ UNCHANGED hist
  \/ PollEvent /\ ObserveFindPointer
  \/ FrameEnd /\ UNCHANGED hist

SpecSlots == InitSlots /\ [][NextSlots]_vars

\* C22: while each finger goes down, moves and goes up in that order and no
\* more fingers are down at once than the table has slots, FindPointer
\* returns a slot that then holds the finger and the assert(0) is never
\* reached; the assertion is reached exactly by a call with an id that no
\* slot in use holds while every slot is in use.
C22_NoExhaustion ==
  /\ hist.most <= NumPointers => ~assert_failed
  /\ (hist.last.called /\ ~hist.last.failed) =>
       (assert_failed <=> (~hist.last.held /\ hist.last.full))
  /\ (hist.last.called /\ ~assert_failed
        /\ hist.last.type \in {"SDL_FINGERDOWN", "SDL_FINGERMOTION"}) =>
       \E i \in Slots : pointers[i].used /\ pointers[i].id = hist.last.fingerId

\* Every slot is in use by a finger that is down, and FindPointer has just
\* resolved a motion of one of them.
C22_Witness ==
  /\ ~assert_failed
  /\ hist.most = NumPointers
  /\ \A i \in Slots : pointers[i].used /\ pointers[i].id \in sdl_fingers
  /\ hist.last.type = "SDL_FINGERMOTION" /\ hist.last.called
  /\ hist.last.held /\ hist.last.full

-----------------------------------------------------------------------------
(* SpecIds: fingers and the mouse on one pointer table                     *)

\* Touch and mouse-button events SDL reports in a behaviour of SpecIds.
MaxIdEvents == 5

\* The observer of the pointer ids.
\*   events: the events SDL has reported.
\*   at_press: per finger whose finger-down has been handled and whose
\*     finger-up has not, the slot its finger-down handler worked on: the one
\*     FindPointer resolved the id to, or the 0 UpdateDragPosition returns
\*     without calling FindPointer; -2 otherwise.
\*   last: the finger-motion or finger-up handled last for which FindPointer
\*     was called (NoLookup before the first, and after any other event),
\*     with at_press of its finger as it was before and the slot FindPointer
\*     resolved the id to: the slot in use for it, else the lowest free slot,
\*     else -1.
NoLookup == [type |-> "none", fingerId |-> 0, at_press |-> -2,
             resolved |-> -1]

InitIds ==
  /\ InitProgram({})
  /\ hist = [events |-> 0,
             at_press |-> [f \in Fingers |-> -2],
             last |-> NoLookup]

IdsReported == hist' = [hist EXCEPT !.events = @ + 1]

ObserveLookup ==
  LET e == Head(sdl_queue)
      touch == e.type \in {"SDL_FINGERDOWN", "SDL_FINGERMOTION", "SDL_FINGERUP"}
      f == e.fingerId
      called == e.type = "SDL_FINGERUP" \/ f \in sdl_fingers
      held == LowestOf({i \in Slots : pointers[i].used /\ pointers[i].id = f})
      lowest == LowestOf({i \in Slots : ~pointers[i].used})
      resolved == IF held # -1 THEN held ELSE lowest
  IN  IF ~touch THEN hist' = [hist EXCEPT !.last = NoLookup]
      ELSE hist' =
        [hist EXCEPT
           !.at_press[f] = CASE e.type = "SDL_FINGERDOWN" ->
                                  IF called THEN resolved ELSE 0
                             [] e.type = "SDL_FINGERUP" -> -2
                             [] OTHER -> @,
           !.last = IF called /\ e.type # "SDL_FINGERDOWN"
                    THEN [type |-> e.type, fingerId |-> f,
                          at_press |-> hist.at_press[f],
                          resolved |-> resolved]
                    ELSE NoLookup]

NextIds ==
  \/ /\ hist.events < MaxIdEvents
     /\ \E f \in Fingers : FingerDown(f)
     /\ IdsReported
  \/ /\ hist.events < MaxIdEvents
     /\ \E f \in Fingers : FingerMotion(f)
     /\ IdsReported
  \/ /\ hist.events < MaxIdEvents
     /\ \E f \in Fingers : FingerUp(f)
     /\ IdsReported
  \/ /\ hist.events < MaxIdEvents
     /\ \E pressed \in BOOLEAN : MouseButtonEvent(1, pressed)
     /\ IdsReported
  \/ FrameBegin /\ UNCHANGED hist
  \/ PollEvent /\ ObserveLookup
  \/ FrameEnd /\ UNCHANGED hist

SpecIds == InitIds /\ [][NextIds]_vars

\* No two slots in use hold the same id.
UniqueIds ==
  \A i, j \in Slots :
    (i # j /\ pointers[i].used /\ pointers[j].used) => pointers[i].id # pointers[j].id

\* C23: under finger and mouse-button events no two slots in use hold the
\* same id, so that (short of the failed assertion of a full table)
\* FindPointer resolves the id of a finger whose finger-down has been handled
\* and whose finger-up has not to the slot its finger-down was given.
C23_OneSlotPerFinger ==
  /\ UniqueIds
  /\ (~assert_failed /\ hist.last.type # "none" /\ hist.last.at_press # -2) =>
       hist.last.resolved = hist.last.at_press

=============================================================================
